---- MODULE Spec2Model ----
(***************************************************************************)
(* Paper-trading core of the Binance relay: the simulated position engine  *)
(* (app/paper.py), the flip/cooldown controller and the trade handler      *)
(* (app/binance_ws.py) and the manual order/close endpoints (app/main.py). *)
(*                                                                         *)
(* Money and prices are integers in thousandths of a dollar (100000 is     *)
(* $100.000); quantities are whole units.  Prices are drawn from a grid on *)
(* which notional/price has at most six decimals, so that the six-decimal  *)
(* rounding of the quantity is exact.                                      *)
(***************************************************************************)
EXTENDS Integers, FiniteSets, Sequences, TLC

\* ------------------------------------------------------------------ bounds
MaxPositionsCfg == 2      \* max_positions is drawn from 1..MaxPositionsCfg
MaxClosed == 2            \* closes per run (closed_count is capped here)
MaxEvents == 2            \* events the venue publishes on the two streams
MaxChanged == 3           \* metrics of a decision input that differ from its base
MaxTrades == 4            \* trades of one instrument in a run of its SymbolState
MaxTops == 2              \* top-of-book updates of one instrument in a run
TradeMaxLen == 3          \* capacity of the trade buffer (trade_maxlen; 6000 in the source)
CvdMaxLen == 6            \* capacity of _cvd_hist (12000 in the source)

\* ------------------------------------------------------- program constants
None == -1                       \* Python None in an Optional[number] slot
MILLI == 1000                    \* thousandths per unit of money / price
AUTO_LEVERAGE == 10
AUTO_MARGIN_USD == 1000
AUTO_NOTIONAL_USD == 10000
AUTO_ABS_TP_USD == 50
AUTO_ABS_SL_USD == 50
MAINT_MARGIN_RATE_PM == 4        \* 0.004, in thousandths
FEE_TAKER_PER10K == 4            \* 0.0004, in ten-thousandths
FEE_MAKER_PER10K == 2            \* 0.0002
FEE_SCALE == 10000
BNB_FEE_DISCOUNT_PCT == 10       \* 0.10
FEE_MODE == "taker"
PAY_FEES_IN_BNB == FALSE
SIGNAL_COOLDOWN_MS == 3000
FLIP_CONFIRM == 2

\* thresholds of _decide_side.  Ratios (ATR, VWAP deviation, S/R distance) are
\* in units of RATIO^-1, tick rates in tenths per second, buy pressure in
\* percent, imbalance and volume spike in hundredths.
RATIO == 100000
MAX_SPREAD_BPS == 5
ATR_MIN == 20                    \* 0.0002
ATR_MAX == 5000                  \* 0.05
MIN_TICKS_PER_SEC == 10          \* 1.0
VWAP_DEV_MAX == 200              \* 0.002
SR_NEAR_PCT == 10                \* 0.00010
BUY_PRESSURE_MIN == 55           \* 0.55
BUY_PRESSURE_ONE == 100          \* 1.0
RSI_LONG_MAX == 65
RSI_SHORT_MIN == 75
IMB_LONG_MIN == 100              \* 1.0
IMB_SHORT_MAX == 100             \* 1.0
IMB_STRONG == 200                \* 2.0
TICK_STRONG == 50                \* 5.0
VOL_SPIKE_MIN == 20              \* 0.20
CVD_ABS_MIN == 50
VWAP_SHORT_MIN == 10             \* 0.00010
VWAP_SHORT_MAX == 200            \* 0.00200
CANDLE_VDEV == 20                \* 0.0002

\* SymbolState
RSI_PERIOD == 14
RSI_UNIT == 10                   \* rsi_value is kept in tenths of a point
RSI_FULL == 100                  \* the value 100.0
VWAP_WINDOW_MS == 60000          \* VWAP_WINDOW_SEC * 1000
BPS == 10000                     \* spread * 10000.0
CVD_WINDOW_MS == 600000          \* cut10m = t - 600_000

\* ------------------------------------------------------------ input sets
Symbols == {"BTCUSDT", "ETHUSDT"}             \* settings.SYMBOLS, as the venue names them
RawSymbols == Symbols \cup {"btcusdt"}        \* spellings a caller of the API may use
Sides == {"long", "short"}
Decisions == {"long", "short", "none"}        \* _decide_side: "long" | "short" | None
Prices == {100000, 125000}                    \* trade prices (thousandths)
Stamps == {3000, 4500, 6000}                  \* trade timestamps T (ms)
Traded == {"BTCUSDT"}                         \* symbols the trade feed delivers
TradeLoops == {"t1", "t2"}                    \* _ws_loop tasks of the trade feed (run
                                              \* leaves the other feed's loop alive
                                              \* when it restarts after an error)
Tops == {<<99990, 100010>>, <<124990, 125010>>}   \* (best_bid, best_ask)
SchedStamps == {3000}                         \* T of the frames when steps interleave
Feeds == {"trade", "depth"}                   \* the streams run() opens (ENABLE_DEPTH)
\* what a frame does in _ws_loop: handled; json.loads raises JSONDecodeError;
\* the payload is no dict; the handler raises; json.loads raises something
\* else (UnicodeDecodeError on a binary frame, RecursionError on deep nesting)
FrameKinds == {"ok", "not_json", "not_dict", "handler_raises", "decode_raises"}
EnginePrices == {100000}                      \* prices of direct engine calls

Upper(s) == IF s = "btcusdt" THEN "BTCUSDT" ELSE s

\* a frame's field, as the handlers meet it: a number (or a numeric string),
\* a key that is not in the dict, or a value float()/int() raises on
Missing == -2
NotNumeric == -3
FrameQty == 1                                 \* q of the aggTrade frames

\* aggTrade frames: the well-formed ones, and one of them with each field in
\* turn absent or not a number ("" is the symbol that `not sym` rejects)
GoodTradeFrames ==
  {[kind |-> "trade", s |-> sym, p |-> price, q |-> FrameQty, T |-> ts] :
     sym \in Traded, price \in Prices, ts \in Stamps}
BadTradeFrames ==
  LET g == [kind |-> "trade", s |-> "BTCUSDT", p |-> 100000, q |-> FrameQty, T |-> 3000]
  IN  {[g EXCEPT !.s = ""], [g EXCEPT !.p = Missing], [g EXCEPT !.q = Missing],
       [g EXCEPT !.T = Missing], [g EXCEPT !.p = NotNumeric],
       [g EXCEPT !.q = NotNumeric], [g EXCEPT !.T = NotNumeric]}
TradeFrames == GoodTradeFrames \cup BadTradeFrames

\* bookTicker frames, likewise
GoodDepthFrames ==
  {[kind |-> "depth", s |-> sym, b |-> t[1], a |-> t[2]] : sym \in Traded, t \in Tops}
BadDepthFrames ==
  LET g == [kind |-> "depth", s |-> "BTCUSDT", b |-> 99990, a |-> 100010]
  IN  {[g EXCEPT !.s = ""], [g EXCEPT !.b = Missing], [g EXCEPT !.a = Missing],
       [g EXCEPT !.b = NotNumeric], [g EXCEPT !.a = NotNumeric]}
DepthFrames == GoodDepthFrames \cup BadDepthFrames

Max(a, b) == IF a >= b THEN a ELSE b

\* --------------------------------------------------------------- state
VARIABLES
  positions,        \* PaperBroker.positions: key -> Position | NoPos
  max_positions,    \* PaperBroker.max_positions
  closed_count,     \* PaperBroker.closed_count
  last_closed,      \* PaperBroker.last_closed
  on_close_calls,   \* how often PaperBroker.on_close was invoked
  open_count,       \* how often PaperBroker.open created a position (observation only)
  signal_cooldown,  \* BinanceWSClient.signal_cooldown: key -> ts | None
  flip_buffer,      \* BinanceWSClient.flip_buffer: key -> [want, count] | NoFlip
  last_price,       \* MarketState.symbols[key].last_price | None
  ev,               \* what the last handler did (observation only)
  oppSeen,          \* per key: opposite decisions in a row since the open
  clean,            \* per key: 0 = position and no flip state, 1 = one opposite since
  lastAutoTs,       \* per key: event time of the last automatic open
  lastFlipTs,       \* per key: event time of the last flip
  top,              \* MarketState.symbols[key]: (best_bid, best_ask) | NoTop
  active,           \* the coroutine that runs now (holds the event loop) | "none"
  tpc,              \* per trade loop: where its _handle_agg_trade stands
  frame,            \* per trade loop: the locals of its _handle_agg_trade
  running,          \* BinanceWSClient._running
  run_pc,           \* where the task of run() stands
  cancel_req,       \* task.cancel() was called and is not delivered yet
  loop,             \* per feed: the _ws_loop task of the current gather
  orphan,           \* per feed: a _ws_loop task of an earlier gather is alive
  sent,             \* per feed: events the venue has published on the stream
  conn,             \* per feed and connection: the next event it delivers | 0
  handled,          \* per feed and event: how often a handler was called with it
  done,             \* per feed: the event of the last handler call | 0
  din,              \* the argument of a function that is called by itself:
                    \* the metrics _decide_side pulls, the window of vwap
  dout,             \* what that call returned | "unset"
  sstate            \* the SymbolState of one instrument

\* what the scheduling model adds to the state
schedVars == <<top, active, tpc, frame>>

vars == <<positions, max_positions, closed_count, last_closed, on_close_calls,
          open_count,
          signal_cooldown,
          flip_buffer, last_price, ev, oppSeen, clean, lastAutoTs, lastFlipTs,
          top, active, tpc, frame,
          running, run_pc, cancel_req, loop, orphan,
          sent, conn, handled, done, din, dout, sstate>>

\* what the connection model adds to the state
feedVars == <<running, run_pc, cancel_req, loop, orphan>>

\* what the model of the events on the connections adds to the state
orderVars == <<sent, conn, handled, done>>

\* the input and the result of a function that is checked by itself
calcVars == <<din, dout, sstate>>

NoPos == [absent |-> TRUE]
NoFlip == [absent |-> TRUE]
NoRec == [absent |-> TRUE]
NoTop == [absent |-> TRUE]
NoFrame == [absent |-> TRUE]

\* the broker's fields, threaded through the calls of one handler.
\* on_close_ok says whether the on_close callback returns (TRUE) or raises
\* during this handler; warned is set when close logged its failure.
Broker == [positions |-> positions, closed_count |-> closed_count,
           last_closed |-> last_closed, on_close_calls |-> on_close_calls,
           open_count |-> open_count,
           on_close_ok |-> TRUE, warned |-> FALSE]

BrokerWith(cb) == [Broker EXCEPT !.on_close_ok = cb]

Held(b) == {k \in RawSymbols : b.positions[k] # NoPos}

\* ------------------------------------------------------ PaperBroker helpers
\* entry * (1 - 1/lev + mmr) for a long, entry * (1 + 1/lev - mmr) for a short
ApproxLiqPriceNoMmr(side, entry, lev, mmr) ==
  IF lev = None \/ lev = 0 \/ lev <= 0 \/ entry <= 0 THEN None
  ELSE IF side = "long"
       THEN (entry * (MILLI * lev - MILLI)) \div (MILLI * lev)
       ELSE (entry * (MILLI * lev + MILLI)) \div (MILLI * lev)
ApproxLiqPrice(side, entry, lev, mmr) ==
  IF lev = None \/ lev = 0 \/ lev <= 0 \/ entry <= 0 THEN None
  ELSE LET m == IF mmr = None THEN 0 ELSE mmr
       IN IF side = "long"
          THEN (entry * (MILLI * lev - MILLI + m * lev)) \div (MILLI * lev)
          ELSE (entry * (MILLI * lev + MILLI - m * lev)) \div (MILLI * lev)

Pnl(side, entry, price, qty) ==
  IF side = "long" THEN (price - entry) * qty ELSE (entry - price) * qty

\* the effective fee rate as a fraction num/den
FeeRateEffective ==
  LET base == IF FEE_MODE = "taker" THEN FEE_TAKER_PER10K ELSE FEE_MAKER_PER10K
  IN IF PAY_FEES_IN_BNB
     THEN [num |-> base * (100 - BNB_FEE_DISCOUNT_PCT), den |-> FEE_SCALE * 100]
     ELSE [num |-> base, den |-> FEE_SCALE]

Fee(amount) == (amount * FeeRateEffective.num) \div FeeRateEffective.den

\* ------------------------------------------------------------ PaperBroker.open
\* the key a new position is stored under
PositionKeyRaw(symbol) == symbol
PositionKey(symbol) == Upper(symbol)

\* the two validations of open, in the order the code makes them
OpenRefusalNoDup(b, maxp, symbol) ==
  IF Cardinality(Held(b)) >= maxp THEN "max positions reached" ELSE "ok"
OpenRefusalOffByOne(b, maxp, symbol) ==
  IF b.positions[Upper(symbol)] # NoPos THEN "already has an open position"
  ELSE IF Cardinality(Held(b)) > maxp THEN "max positions reached"
  ELSE "ok"
OpenRefusalAfterClose(b, maxp, symbol) ==
  IF b.positions[Upper(symbol)] # NoPos THEN "already has an open position"
  ELSE IF b.last_closed # NoRec /\ b.last_closed.symbol = Upper(symbol)
  THEN "already has an open position"
  ELSE IF Cardinality(Held(b)) >= maxp THEN "max positions reached"
  ELSE "ok"
OpenRefusal(b, maxp, symbol) ==
  IF b.positions[Upper(symbol)] # NoPos THEN "already has an open position"
  ELSE IF Cardinality(Held(b)) >= maxp THEN "max positions reached"
  ELSE "ok"

NewPosition(symbol, side, qty, price, stop, tp, leverage, margin_usd, mmr) ==
  LET notional == IF leverage # None /\ leverage # 0 /\ margin_usd # None /\ margin_usd # 0
                  THEN leverage * margin_usd * MILLI
                  ELSE qty * price
  IN [symbol |-> PositionKey(symbol), side |-> side, qty |-> qty, entry |-> price,
      stop |-> stop, tp |-> tp, pnl |-> 0,
      leverage |-> leverage, margin_usd |-> margin_usd,
      notional_usd |-> notional, maint_margin_rate |-> mmr,
      liq_price |-> ApproxLiqPrice(side, price, leverage, mmr),
      last_price |-> None, fee_open_usd |-> Fee(notional)]

PaperOpen(b, maxp, symbol, side, qty, price, stop, tp, leverage, margin_usd, mmr) ==
  LET refusal == OpenRefusal(b, maxp, symbol)
  IN IF refusal # "ok" THEN [b |-> b, err |-> refusal]
     ELSE LET pos == NewPosition(symbol, side, qty, price, stop, tp, leverage, margin_usd, mmr)
          IN [b |-> [b EXCEPT !.positions[pos.symbol] = pos,
                             !.open_count = b.open_count + 1],
              err |-> "ok"]

\* ----------------------------------------------------------- PaperBroker.close
ClosedRecordCloseFeeOnly(pos, price) ==
  LET pnl == Pnl(pos.side, pos.entry, price, pos.qty)
      fee_close == Fee(price * pos.qty)
  IN [symbol |-> pos.symbol, side |-> pos.side, qty |-> pos.qty,
      entry |-> pos.entry, exit |-> price, pnl |-> pnl,
      net_pnl |-> pnl - fee_close, leverage |-> pos.leverage,
      margin_usd |-> pos.margin_usd, notional_usd |-> pos.notional_usd,
      liq_price |-> pos.liq_price, fee_open_usd |-> pos.fee_open_usd,
      fee_close_usd |-> fee_close, fee_total_usd |-> fee_close]
ClosedRecord(pos, price) ==
  LET pnl == Pnl(pos.side, pos.entry, price, pos.qty)
      fee_close == Fee(price * pos.qty)
      fee_total == pos.fee_open_usd + fee_close
  IN [symbol |-> pos.symbol, side |-> pos.side, qty |-> pos.qty,
      entry |-> pos.entry, exit |-> price, pnl |-> pnl,
      net_pnl |-> pnl - fee_total, leverage |-> pos.leverage,
      margin_usd |-> pos.margin_usd, notional_usd |-> pos.notional_usd,
      liq_price |-> pos.liq_price, fee_open_usd |-> pos.fee_open_usd,
      fee_close_usd |-> fee_close, fee_total_usd |-> fee_total]

CloseHeldKeeps(b, sym, price) ==
  [b EXCEPT !.closed_count = b.closed_count + 1,
            !.last_closed = ClosedRecord(b.positions[sym], price),
            !.on_close_calls = b.on_close_calls + 1,
            !.warned = ~b.on_close_ok]
CloseHeldRollback(b, sym, price) ==
  IF b.on_close_ok
  THEN [b EXCEPT !.positions[sym] = NoPos,
                 !.closed_count = b.closed_count + 1,
                 !.last_closed = ClosedRecord(b.positions[sym], price),
                 !.on_close_calls = b.on_close_calls + 1]
  ELSE [b EXCEPT !.on_close_calls = b.on_close_calls + 1, !.warned = TRUE]
CloseHeldNoCount(b, sym, price) ==
  [b EXCEPT !.positions[sym] = NoPos,
            !.last_closed = ClosedRecord(b.positions[sym], price),
            !.on_close_calls = b.on_close_calls + 1,
            !.warned = ~b.on_close_ok]
\* close of a held position: pop it, build the record, count it, hand it to on_close
CloseHeld(b, sym, price) ==
  [b EXCEPT !.positions[sym] = NoPos,
            !.closed_count = b.closed_count + 1,
            !.last_closed = ClosedRecord(b.positions[sym], price),
            !.on_close_calls = b.on_close_calls + 1,
            !.warned = ~b.on_close_ok]

PaperCloseLenient(b, symbol, price) ==
  LET sym == Upper(symbol)
  IN IF b.positions[sym] = NoPos
     THEN [b |-> [b EXCEPT !.closed_count = @ + 1], err |-> "ok"]
     ELSE [b |-> CloseHeld(b, sym, price), err |-> "ok"]
PaperClose(b, symbol, price) ==
  LET sym == Upper(symbol)
  IN IF b.positions[sym] = NoPos
     THEN [b |-> b, err |-> "No open position for symbol"]
     ELSE [b |-> CloseHeld(b, sym, price), err |-> "ok"]

\* --------------------------------------------------- PaperBroker.mark_to_market
LiqHit(pos, price) ==
  /\ pos.liq_price # None
  /\ \/ pos.side = "long" /\ price <= pos.liq_price
     \/ pos.side = "short" /\ price >= pos.liq_price

TpHit(pos, price) ==
  /\ pos.tp # None
  /\ \/ pos.side = "long" /\ price >= pos.tp
     \/ pos.side = "short" /\ price <= pos.tp

SlHit(pos, price) ==
  /\ pos.stop # None
  /\ \/ pos.side = "long" /\ price <= pos.stop
     \/ pos.side = "short" /\ price >= pos.stop

MarkToMarketTpFirst(b, symbol, price) ==
  LET sym == Upper(symbol)
      pos == b.positions[sym]
  IN IF pos = NoPos THEN [b |-> b, closed |-> FALSE, why |-> "none"]
     ELSE LET marked == [pos EXCEPT !.pnl = Pnl(pos.side, pos.entry, price, pos.qty),
                                    !.last_price = price]
              b1 == [b EXCEPT !.positions[sym] = marked]
              why == IF TpHit(marked, price) THEN "tp"
                     ELSE IF LiqHit(marked, price) THEN "liq"
                     ELSE IF SlHit(marked, price) THEN "sl"
                     ELSE "none"
          IN IF why # "none"
             THEN [b |-> PaperClose(b1, sym, price).b, closed |-> TRUE, why |-> why]
             ELSE [b |-> b1, closed |-> FALSE, why |-> "none"]
MarkToMarketReliq(b, symbol, price) ==
  LET sym == Upper(symbol)
      pos == b.positions[sym]
  IN IF pos = NoPos THEN [b |-> b, closed |-> FALSE, why |-> "none"]
     ELSE LET marked == [pos EXCEPT !.pnl = Pnl(pos.side, pos.entry, price, pos.qty),
                                    !.last_price = price,
                                    !.liq_price = ApproxLiqPrice(pos.side, price, pos.leverage,
                                                                 pos.maint_margin_rate)]
              b1 == [b EXCEPT !.positions[sym] = marked]
              why == IF LiqHit(marked, price) THEN "liq"
                     ELSE IF TpHit(marked, price) THEN "tp"
                     ELSE IF SlHit(marked, price) THEN "sl"
                     ELSE "none"
          IN IF why # "none"
             THEN [b |-> PaperClose(b1, sym, price).b, closed |-> TRUE, why |-> why]
             ELSE [b |-> b1, closed |-> FALSE, why |-> "none"]
MarkToMarket(b, symbol, price) ==
  LET sym == Upper(symbol)
      pos == b.positions[sym]
  IN IF pos = NoPos THEN [b |-> b, closed |-> FALSE, why |-> "none"]
     ELSE LET marked == [pos EXCEPT !.pnl = Pnl(pos.side, pos.entry, price, pos.qty),
                                    !.last_price = price]
              b1 == [b EXCEPT !.positions[sym] = marked]
              why == IF LiqHit(marked, price) THEN "liq"
                     ELSE IF TpHit(marked, price) THEN "tp"
                     ELSE IF SlHit(marked, price) THEN "sl"
                     ELSE "none"
          IN IF why # "none"
             THEN [b |-> PaperClose(b1, sym, price).b, closed |-> TRUE, why |-> why]
             ELSE [b |-> b1, closed |-> FALSE, why |-> "none"]

\* ------------------------------------------- BinanceWSClient._calc_auto_params
\* round(notional / entry_price, 6); exact on the price grid.  The 1e-8 floor
\* of the source only acts when the quotient rounds to zero.
AutoQty(entry_price) == Max(1, (AUTO_NOTIONAL_USD * MILLI) \div entry_price)

CalcAutoParams(side, entry_price) ==
  LET qty == AutoQty(entry_price)
      delta_tp == (AUTO_ABS_TP_USD * MILLI) \div qty
      delta_sl == (AUTO_ABS_SL_USD * MILLI) \div qty
  IN [lev |-> AUTO_LEVERAGE, margin |-> AUTO_MARGIN_USD, qty |-> qty,
      tp |-> IF side = "long" THEN entry_price + delta_tp ELSE entry_price - delta_tp,
      sl |-> IF side = "long" THEN entry_price - delta_sl ELSE entry_price + delta_sl]

\* dict.get(key, default) on a map whose missing keys hold None
CooldownGet(cd, sym) == IF cd[sym] = None THEN 0 ELSE cd[sym]

\* ------------------------------------------------- BinanceWSClient._open_auto
CooldownNever(ts, last) == FALSE
CooldownBlocksInclusive(ts, last) == ts - last <= SIGNAL_COOLDOWN_MS
CooldownBlocks(ts, last) == ts - last < SIGNAL_COOLDOWN_MS

OpenAutoStampsAll(b, cd, maxp, sym, side, price, ts) ==
  IF CooldownBlocks(ts, CooldownGet(cd, sym))
  THEN [b |-> b, cd |-> cd, opened |-> FALSE]
  ELSE IF b.positions[sym] # NoPos
  THEN [b |-> b, cd |-> cd, opened |-> FALSE]
  ELSE LET prm == CalcAutoParams(side, price)
           r == PaperOpen(b, maxp, sym, side, prm.qty, price, prm.sl, prm.tp,
                          prm.lev, prm.margin, MAINT_MARGIN_RATE_PM)
       IN IF r.err = "ok"
          THEN [b |-> r.b, cd |-> [k \in DOMAIN cd |-> ts], opened |-> TRUE]
          ELSE [b |-> b, cd |-> cd, opened |-> FALSE]
OpenAuto(b, cd, maxp, sym, side, price, ts) ==
  IF CooldownBlocks(ts, CooldownGet(cd, sym))
  THEN [b |-> b, cd |-> cd, opened |-> FALSE]
  ELSE IF b.positions[sym] # NoPos
  THEN [b |-> b, cd |-> cd, opened |-> FALSE]
  ELSE LET prm == CalcAutoParams(side, price)
           r == PaperOpen(b, maxp, sym, side, prm.qty, price, prm.sl, prm.tp,
                          prm.lev, prm.margin, MAINT_MARGIN_RATE_PM)
       IN IF r.err = "ok"
          THEN [b |-> r.b, cd |-> [cd EXCEPT ![sym] = ts], opened |-> TRUE]
          ELSE [b |-> b, cd |-> cd, opened |-> FALSE]

\* ------------------------------------------------ BinanceWSClient._maybe_flip
Opposite(side) == IF side = "long" THEN "short" ELSE "long"

FlipReachedEager(count) == count >= 1
FlipReached(count) == count >= FLIP_CONFIRM

MaybeFlip(b, cd, fb, maxp, sym, decision, price, ts) ==
  LET pos == b.positions[sym]
  IN IF pos = NoPos \/ decision = "none"
     THEN IF decision # "none" /\ pos = NoPos
          THEN LET o == OpenAuto(b, cd, maxp, sym, decision, price, ts)
               IN [b |-> o.b, cd |-> o.cd, fb |-> fb, flip |-> FALSE, opened |-> o.opened]
          ELSE [b |-> b, cd |-> cd, fb |-> fb, flip |-> FALSE, opened |-> FALSE]
     ELSE LET opposite == Opposite(pos.side)
          IN IF decision # opposite
             THEN [b |-> b, cd |-> cd, fb |-> [fb EXCEPT ![sym] = NoFlip],
                   flip |-> FALSE, opened |-> FALSE]
             ELSE LET old == IF fb[sym] = NoFlip THEN [want |-> opposite, count |-> 0]
                             ELSE IF fb[sym].want # opposite
                                  THEN [want |-> opposite, count |-> 0]
                                  ELSE fb[sym]
                      cur == [old EXCEPT !.count = old.count + 1]
                  IN IF FlipReached(cur.count)
                     THEN LET c == PaperClose(b, sym, price)
                          IN IF c.err # "ok"
                             THEN [b |-> b, cd |-> cd, fb |-> [fb EXCEPT ![sym] = NoFlip],
                                   flip |-> FALSE, opened |-> FALSE]
                             ELSE LET o == OpenAuto(c.b, cd, maxp, sym, opposite, price, ts)
                                  IN [b |-> o.b, cd |-> o.cd,
                                      fb |-> [fb EXCEPT ![sym] = NoFlip],
                                      flip |-> TRUE, opened |-> o.opened]
                     ELSE [b |-> b, cd |-> cd, fb |-> [fb EXCEPT ![sym] = cur],
                           flip |-> FALSE, opened |-> FALSE]

\* ---------------------------------------------------------- observation
\* ev describes the handler that ran last.  A run records either the engine
\* calls (watch = "api": op, err, and whether the called symbol was held and
\* the engine full before the call) or the controller (watch = "ctl": the
\* decision, the side of the position the controller saw after
\* mark_to_market, what was closed and opened, opp = opposite decisions in a
\* row up to and including this one, first/second = the place of this event
\* in a run of opposite decisions that began with an open position and no
\* flip state, and the event-time gaps to the previous automatic open/flip).
\* (a gap is a set: empty when there was no previous one)
\* raw is the frame a feed handler was called with, ts the T of a trade event,
\* rows what snapshot returned.
\* why is the trigger mark_to_market closed on; cb says that on_close raised
\* inside a close of this handler.
NoEv == [op |-> "none", sym |-> "", dec |-> "none", err |-> "ok",
         mtm |-> FALSE, flip |-> FALSE, opened |-> FALSE, side |-> "none",
         opp |-> 0, first |-> FALSE, second |-> FALSE,
         autoGap |-> {}, flipGap |-> {}, full |-> FALSE, dup |-> FALSE,
         why |-> "none", cb |-> FALSE, by |-> "", feed |-> "", kind |-> "",
         raw |-> NoFrame, rows |-> {}, ts |-> 0]

Min(a, b) == IF a <= b THEN a ELSE b

\* scenario tracker: 0 when the key holds a position and no flip state
CleanAfter(pos, fb, k, was, stepped) ==
  IF pos[k] # NoPos /\ fb[k] = NoFlip THEN 0
  ELSE IF stepped THEN 1
  ELSE None

\* ------------------------------------------------------------ SymbolState
\* The fields of a SymbolState that RSI, vwap, CVD and the spread are computed
\* from.  trades holds (ts, price, qty, is_buy_aggr), oldest first, _cvd_hist
\* (ts, delta).  The smoothed averages are fractions over one denominator:
\* average gain = rsi_gain / rsi_den, average loss = rsi_loss / rsi_den.
\* A bool or None is written "True", "False", "None".
\* seen is no field of the source: every trade on_agg_trade was called with,
\* in the order of the calls, with the m of its frame.
\* best_bid, best_ask and the two volumes are the top of the book; depth_n is
\* the length of depth_events, whose entries nothing reads.
NewSymbolState ==
  [trades |-> <<>>, last_price |-> None, last_qty |-> None, last_ts |-> None,
   prev_price |-> None, rsi_gain |-> 0, rsi_loss |-> 0, rsi_den |-> 1,
   rsi_value |-> None, cvd_hist |-> <<>>, cvd_10m |-> 0, seen |-> <<>>,
   best_bid |-> None, best_ask |-> None, bid_vol |-> 0, ask_vol |-> 0, depth_n |-> 0]

\* SymbolState.on_depth_top
OnDepthTop(s, best_bid, best_ask, bid_vol, ask_vol) ==
  [s EXCEPT !.best_bid = best_bid, !.best_ask = best_ask,
            !.bid_vol = bid_vol, !.ask_vol = ask_vol, !.depth_n = s.depth_n + 1]

\* SymbolState.spread_bps: no value, or the spread over the mid price in basis
\* points (rounded down)
NoSpread == [absent |-> TRUE]

SpreadBps(s) ==
  IF s.best_bid \in {None, 0} \/ s.best_ask \in {None, 0} \/ s.best_bid <= 0
  THEN NoSpread
  ELSE IF s.best_ask + s.best_bid <= 0 THEN NoSpread
  ELSE [bps |-> ((s.best_ask - s.best_bid) * 2 * BPS) \div (s.best_ask + s.best_bid)]

\* top-of-book updates: zero, a price and the price one step above it, for the
\* bid and for the ask; volumes
BookPrices == {0, 100000, 100020}
BookVols == {0, 1, 2}

\* rs = gain / loss taken for the index itself
RsiValueRs(gain, loss) ==
  IF loss = 0 THEN RSI_FULL * RSI_UNIT
  ELSE (RSI_FULL * RSI_UNIT * gain) \div loss

\* 100.0 - 100.0 / (1.0 + rs) with rs = gain / loss, in RSI_UNITs
RsiValue(gain, loss) ==
  IF loss = 0 THEN RSI_FULL * RSI_UNIT
  ELSE RSI_FULL * RSI_UNIT - (RSI_FULL * RSI_UNIT * loss) \div (gain + loss)

\* deque(maxlen).append: when the deque is full its oldest entry goes
DequeAppendUnbounded(buf, x, maxlen) == Append(buf, x)
DequeAppend(buf, x, maxlen) ==
  IF Len(buf) >= maxlen THEN Append(Tail(buf), x) ELSE Append(buf, x)

\* buyer_is_maker = bool(d.get("m")) if "m" in d else None; m is the JSON
\* value of the frame, "None" when the frame has no m
BuyerIsMaker(m) == m

\* is_buy_aggr = None if buyer_is_maker is None else (not buyer_is_maker)
IsBuyAggrSame(buyer_is_maker) == buyer_is_maker
IsBuyAggr(buyer_is_maker) ==
  IF buyer_is_maker = "None" THEN "None"
  ELSE IF buyer_is_maker = "True" THEN "False" ELSE "True"

\* delta = (q if is_buy_aggr else -q) if is_buy_aggr is not None else 0.0
CvdDelta(q, is_buy_aggr) ==
  IF is_buy_aggr = "None" THEN 0 ELSE IF is_buy_aggr = "True" THEN q ELSE -q

\* while self._cvd_hist and self._cvd_hist[0][0] < cut10m: popleft()
RECURSIVE CvdPopOld(_, _)
CvdPopOld(hist, cut) ==
  IF hist # <<>> /\ hist[1].ts < cut THEN CvdPopOld(Tail(hist), cut) ELSE hist

\* the sum of dd over the entries with tt >= cut10m
RECURSIVE CvdSum(_, _)
CvdSum(hist, cut) ==
  IF hist = <<>> THEN 0
  ELSE (IF hist[1].ts >= cut THEN hist[1].delta ELSE 0) + CvdSum(Tail(hist), cut)

\* SymbolState.on_trade: the trade is recorded, RSI(14) and the 10-minute CVD
\* are updated.  (The EMAs, the volume spike, the pseudo-candle and the swing
\* high/low it also updates are read by none of RSI, vwap, CVD.)
OnTrade(s, p, q, t, is_buy_aggr) ==
  LET hist == CvdPopOld(DequeAppend(s.cvd_hist,
                                    [ts |-> t, delta |-> CvdDelta(q, is_buy_aggr)],
                                    CvdMaxLen),
                        t - CVD_WINDOW_MS)
      rec == [s EXCEPT !.last_price = p, !.last_qty = q, !.last_ts = t,
                       !.trades = DequeAppend(s.trades,
                                     [ts |-> t, p |-> p, q |-> q, buy |-> is_buy_aggr],
                                     TradeMaxLen),
                       !.prev_price = p,
                       !.cvd_hist = hist,
                       !.cvd_10m = CvdSum(hist, t - CVD_WINDOW_MS)]
  IN IF s.prev_price = None THEN rec
     ELSE LET change == p - s.prev_price
              gain == Max(change, 0)
              loss == Max(-change, 0)
              seed == s.rsi_gain = 0 /\ s.rsi_loss = 0
              g == IF seed THEN gain
                   ELSE s.rsi_gain * (RSI_PERIOD - 1) + gain * s.rsi_den
              l == IF seed THEN loss
                   ELSE s.rsi_loss * (RSI_PERIOD - 1) + loss * s.rsi_den
              d == IF seed THEN 1 ELSE s.rsi_den * RSI_PERIOD
          IN [rec EXCEPT !.rsi_gain = g, !.rsi_loss = l, !.rsi_den = d,
                         !.rsi_value = RsiValue(g, l)]

\* SymbolState.vwap: the trades are scanned from the newest back to the first
\* one older than the cutoff; scanned is [num, den] over trades[1..i]
RECURSIVE VwapScan(_, _, _, _)
VwapScan(trades, i, cutoff, acc) ==
  IF i = 0 \/ trades[i].ts < cutoff THEN acc
  ELSE VwapScan(trades, i - 1, cutoff,
                [num |-> acc.num + trades[i].p * trades[i].q,
                 den |-> acc.den + trades[i].q])

RECURSIVE VwapScanPerTrade(_, _, _, _)
VwapScanPerTrade(trades, i, cutoff, acc) ==
  IF i = 0 \/ trades[i].ts < cutoff THEN acc
  ELSE VwapScanPerTrade(trades, i - 1, cutoff,
                        [num |-> acc.num + trades[i].p * trades[i].q,
                         den |-> acc.den + 1])

VwapPerTrade(s, window_ms) ==
  LET cutoff == s.last_ts - window_ms
      acc == VwapScanPerTrade(s.trades, Len(s.trades), cutoff, [num |-> 0, den |-> 0])
  IN IF acc.den <= 0 THEN None ELSE acc.num \div acc.den
Vwap(s, window_ms) ==
  LET cutoff == s.last_ts - window_ms
      acc == VwapScan(s.trades, Len(s.trades), cutoff, [num |-> 0, den |-> 0])
  IN IF acc.den <= 0 THEN None ELSE acc.num \div acc.den

\* the trades on_agg_trade is called with: prices, quantities (> 0), and
\* timestamps T in any order of arrival (two connections of one stream hand
\* their events to the handler independently of each other)
StatePrices == {99990, 100000, 100010}
StateQtys == {1, 2}
StateStamps == {1000, 2000, 62000}

\* the trades of one connection: T does not go back.  The time since the trade
\* before, and the m of the frame
CvdGaps == {1000, 600000}
CvdMakers == {"True", "False", "None"}

\* ------------------------------------------- BinanceWSClient._decide_side
\* The values _decide_side pulls from the instrument state, None where the
\* state has none: lp, ef, es, vwap, atr, spr, tick, bp, rsi, imb, cvd10 and
\* the attributes read with getattr(st, name, None): vwap_dev_pct, volsp
\* (vol_spike_5s), srpct (sr_dist_pct), candle (candle5_dir; "none" for None).
NoMetrics == [absent |-> TRUE]

Abs(x) == IF x < 0 THEN -x ELSE x

\* Python truth of an Optional[float]
Truthy(x) == x # None /\ x # 0

VwapDev(m) ==
  IF m.vwap_dev_pct = None /\ Truthy(m.vwap) /\ Truthy(m.lp)
  THEN (Abs(m.lp - m.vwap) * RATIO) \div m.vwap
  ELSE m.vwap_dev_pct

BasicsMissing(m) == None \in {m.lp, m.ef, m.es, m.atr, m.spr, m.tick}

HardFilterVetoNoTick(m, vdev) ==
  \/ m.spr > MAX_SPREAD_BPS
  \/ ~(ATR_MIN <= m.atr /\ m.atr <= ATR_MAX)
  \/ vdev = None \/ vdev > VWAP_DEV_MAX
  \/ m.srpct # None /\ m.srpct <= SR_NEAR_PCT
HardFilterVeto(m, vdev) ==
  \/ m.spr > MAX_SPREAD_BPS
  \/ ~(ATR_MIN <= m.atr /\ m.atr <= ATR_MAX)
  \/ m.tick < MIN_TICKS_PER_SEC
  \/ vdev = None \/ vdev > VWAP_DEV_MAX
  \/ m.srpct # None /\ m.srpct <= SR_NEAR_PCT

\* long_ok, as it stands at line 148
LongOkCvdAboveMin(m, vdev) ==
  /\ m.ef > m.es
  /\ m.bp # None /\ m.bp >= BUY_PRESSURE_MIN
  /\ (m.rsi = None \/ m.rsi <= RSI_LONG_MAX)
  /\ (m.imb = None \/ m.imb >= IMB_LONG_MIN)
  /\ (m.volsp # None =>
        (m.volsp >= VOL_SPIKE_MIN
           \/ (m.imb # None /\ m.imb >= IMB_STRONG /\ m.tick >= TICK_STRONG)))
  /\ (m.cvd10 # None => m.cvd10 > CVD_ABS_MIN)
  /\ ~(m.candle = "bear" /\ vdev # None /\ vdev < CANDLE_VDEV)
LongOk(m, vdev) ==
  /\ m.ef > m.es
  /\ m.bp # None /\ m.bp >= BUY_PRESSURE_MIN
  /\ (m.rsi = None \/ m.rsi <= RSI_LONG_MAX)
  /\ (m.imb = None \/ m.imb >= IMB_LONG_MIN)
  /\ (m.volsp # None =>
        (m.volsp >= VOL_SPIKE_MIN
           \/ (m.imb # None /\ m.imb >= IMB_STRONG /\ m.tick >= TICK_STRONG)))
  /\ (m.cvd10 # None /\ m.cvd10 <= CVD_ABS_MIN => m.cvd10 > 0)
  /\ ~(m.candle = "bear" /\ vdev # None /\ vdev < CANDLE_VDEV)

\* short_ok, as it stands at line 150
ShortOkNoRsi(m, vdev) ==
  /\ m.ef < m.es
  /\ m.bp # None /\ BUY_PRESSURE_ONE - m.bp >= BUY_PRESSURE_MIN
  /\ (m.rsi = None \/ m.rsi >= RSI_SHORT_MIN)
  /\ (m.imb = None \/ m.imb <= IMB_SHORT_MAX)
  /\ (vdev # None => VWAP_SHORT_MIN <= vdev /\ vdev <= VWAP_SHORT_MAX)
  /\ (m.cvd10 # None /\ m.cvd10 >= -CVD_ABS_MIN => m.cvd10 < 0)
  /\ ~(m.candle = "bull" /\ vdev # None /\ vdev < CANDLE_VDEV)
ShortOk(m, vdev) ==
  /\ m.ef < m.es
  /\ m.bp # None /\ BUY_PRESSURE_ONE - m.bp >= BUY_PRESSURE_MIN
  /\ m.rsi # None /\ m.rsi >= RSI_SHORT_MIN
  /\ (m.imb = None \/ m.imb <= IMB_SHORT_MAX)
  /\ (vdev # None => VWAP_SHORT_MIN <= vdev /\ vdev <= VWAP_SHORT_MAX)
  /\ (m.cvd10 # None /\ m.cvd10 >= -CVD_ABS_MIN => m.cvd10 < 0)
  /\ ~(m.candle = "bull" /\ vdev # None /\ vdev < CANDLE_VDEV)

DecideSide(m) ==
  IF BasicsMissing(m) THEN "none"
  ELSE LET vdev == VwapDev(m)
       IN  IF HardFilterVeto(m, vdev) THEN "none"
           ELSE IF LongOk(m, vdev) THEN "long"
           ELSE IF ShortOk(m, vdev) THEN "short"
           ELSE "none"

\* inputs: two sets of metrics, one that favours each side, and every set that
\* differs from one of them in at most MaxChanged metrics.  -1 reads as None,
\* so it is not among the CVD values.  candle5_dir is an attribute no
\* SymbolState has.
DecideLongBase ==
  [lp |-> 100100, ef |-> 101000, es |-> 100000, vwap |-> 100000,
   vwap_dev_pct |-> None, atr |-> 100, spr |-> 2, tick |-> 20, bp |-> 60,
   rsi |-> 60, imb |-> 130, volsp |-> 200, cvd10 |-> 50, srpct |-> 500,
   candle |-> "none"]
DecideShortBase ==
  [DecideLongBase EXCEPT !.ef = 99000, !.bp = 40, !.rsi = 80, !.imb = 80,
                         !.cvd10 = -60]
DecideAlt ==
  [lp |-> {None}, ef |-> {None, 100000}, es |-> {None, 100000, 102000},
   vwap |-> {None, 0, 100099, 99000}, atr |-> {None, 10, 6000},
   spr |-> {None, 6}, tick |-> {None, 5, 50}, bp |-> {None, 50},
   rsi |-> {None, 70}, imb |-> {None, 100, 200}, volsp |-> {None, 10},
   cvd10 |-> {None, 0, -10, 60}, srpct |-> {None, 5}]
DecideFields == DOMAIN DecideAlt

RECURSIVE Varied(_, _)
Varied(S, n) ==
  IF n = 0 THEN S
  ELSE Varied(S \cup UNION {{[m EXCEPT ![f] = v] : v \in DecideAlt[f]} :
                              <<m, f>> \in S \X DecideFields}, n - 1)

DecideInputs == Varied({DecideLongBase, DecideShortBase}, MaxChanged)

\* ---------------------------------------------------------------- Init
InitProgram ==
  /\ positions = [k \in RawSymbols |-> NoPos]
  /\ max_positions \in 1..MaxPositionsCfg
  /\ closed_count = 0
  /\ last_closed = NoRec
  /\ on_close_calls = 0
  /\ open_count = 0
  /\ signal_cooldown = [k \in RawSymbols |-> None]
  /\ flip_buffer = [k \in RawSymbols |-> NoFlip]
  /\ last_price = [k \in RawSymbols |-> None]
  /\ ev = NoEv
  /\ oppSeen = [k \in RawSymbols |-> 0]
  /\ clean = [k \in RawSymbols |-> None]
  /\ lastAutoTs = [k \in RawSymbols |-> None]
  /\ lastFlipTs = [k \in RawSymbols |-> None]
  /\ top = [k \in RawSymbols |-> NoTop]
  /\ active = "none"
  /\ tpc = [h \in TradeLoops |-> "reading"]
  /\ frame = [h \in TradeLoops |-> NoFrame]
  /\ running = FALSE
  /\ run_pc = "init"
  /\ cancel_req = FALSE
  /\ loop = [f \in Feeds |-> "none"]
  /\ orphan = [f \in Feeds |-> FALSE]
  /\ sent = [f \in Feeds |-> 0]
  /\ conn = [f \in Feeds |-> [loop |-> 0, orphan |-> 0]]
  /\ handled = [f \in Feeds |-> [n \in 1..MaxEvents |-> 0]]
  /\ done = [f \in Feeds |-> 0]

Init ==
  /\ InitProgram
  /\ din = NoMetrics
  /\ dout = "unset"
  /\ sstate = NewSymbolState

\* ------------------------------------------ BinanceWSClient._handle_agg_trade
\* the head of _handle_agg_trade: the frame is let through (ok) with its
\* fields converted, or the handler returns
ParseAggTradeNoQty(d) ==
  IF d.s = "" \/ d.p = Missing \/ d.T = Missing \/ d.p = NotNumeric \/ d.T = NotNumeric
  THEN [ok |-> FALSE]
  ELSE [ok |-> TRUE, sym |-> d.s, price |-> d.p, qty |-> d.q, ts |-> d.T]
ParseAggTrade(d) ==
  IF d.s = "" \/ d.p = Missing \/ d.q = Missing \/ d.T = Missing
  THEN [ok |-> FALSE]
  ELSE IF d.p = NotNumeric \/ d.q = NotNumeric \/ d.T = NotNumeric
  THEN [ok |-> FALSE]
  ELSE [ok |-> TRUE, sym |-> d.s, price |-> d.p, qty |-> d.q, ts |-> d.T]

\* One trade frame, handled to completion: the parse, on_agg_trade,
\* mark_to_market, _decide_side, _maybe_flip.  The decision is a function of
\* the rolling metrics; here it is any of the three values.
HandleParsed(watch, d, sym, price, ts, decision, cb) ==
  \E m \in {MarkToMarket(BrokerWith(cb), sym, price)} :
  \E f \in {MaybeFlip(m.b, signal_cooldown, flip_buffer, max_positions,
                      sym, decision, price, ts)} :
  \E side \in {IF m.b.positions[sym] = NoPos THEN "none" ELSE m.b.positions[sym].side} :
  \E against \in {side # "none" /\ decision = Opposite(side)} :
  \E opp \in {IF against THEN Min(oppSeen[sym] + 1, FLIP_CONFIRM) ELSE 0} :
  \E first \in {against /\ ~m.closed /\ clean[sym] = 0} :
  \E second \in {against /\ ~m.closed /\ clean[sym] = 1} :
     /\ f.b.closed_count <= MaxClosed
     /\ last_price' = [last_price EXCEPT ![sym] = price]
     /\ positions' = f.b.positions
     /\ closed_count' = f.b.closed_count
     /\ last_closed' = f.b.last_closed
     /\ on_close_calls' = f.b.on_close_calls
     /\ open_count' = f.b.open_count
     /\ signal_cooldown' = f.cd
     /\ flip_buffer' = f.fb
     /\ UNCHANGED max_positions
     /\ IF watch = "ctl"
        THEN /\ ev' = [NoEv EXCEPT !.op = "trade", !.sym = sym, !.dec = decision,
                         !.mtm = m.closed, !.flip = f.flip, !.opened = f.opened,
                         !.side = side, !.opp = opp, !.first = first,
                         !.second = second, !.why = m.why, !.ts = ts,
                         !.autoGap = IF f.opened /\ lastAutoTs[sym] # None
                                     THEN {ts - lastAutoTs[sym]} ELSE {},
                         !.flipGap = IF f.flip /\ lastFlipTs[sym] # None
                                     THEN {ts - lastFlipTs[sym]} ELSE {}]
             /\ oppSeen' = [oppSeen EXCEPT ![sym] = IF f.flip \/ f.opened THEN 0 ELSE opp]
             /\ clean' = [clean EXCEPT ![sym] = CleanAfter(f.b.positions, f.fb, sym, clean[sym], first)]
             /\ lastAutoTs' = IF f.opened THEN [lastAutoTs EXCEPT ![sym] = ts] ELSE lastAutoTs
             /\ lastFlipTs' = IF f.flip THEN [lastFlipTs EXCEPT ![sym] = ts] ELSE lastFlipTs
        ELSE /\ ev' = [NoEv EXCEPT !.op = "trade", !.sym = sym, !.cb = f.b.warned,
                         !.raw = IF watch = "frames" THEN d ELSE NoFrame]
             /\ UNCHANGED <<oppSeen, clean, lastAutoTs, lastFlipTs>>

HandleAggTrade(watch, d, decision, cb) ==
  \E r \in {ParseAggTrade(d)} :
     IF r.ok
     THEN HandleParsed(watch, d, r.sym, r.price, r.ts, decision, cb)
     ELSE /\ ev' = [NoEv EXCEPT !.op = "trade", !.raw = d]
          /\ UNCHANGED <<positions, max_positions, closed_count, last_closed,
                         on_close_calls, open_count, signal_cooldown, flip_buffer, last_price,
                         oppSeen, clean, lastAutoTs, lastFlipTs>>

\* the observation after an engine call for `symbol` that ended with err
ApiGhost(watch, op, symbol, err, posAfter, wasFull, wasDup, warned) ==
  LET k == Upper(symbol)
  IN IF watch = "sched"
     THEN /\ ev' = [NoEv EXCEPT !.op = op]
          /\ UNCHANGED <<oppSeen, clean, lastAutoTs, lastFlipTs>>
     ELSE IF watch = "ctl"
     THEN /\ ev' = [NoEv EXCEPT !.op = "api"]
          /\ oppSeen' = IF err = "ok" THEN [oppSeen EXCEPT ![k] = 0] ELSE oppSeen
          /\ clean' = IF err = "ok"
                      THEN [clean EXCEPT ![k] = CleanAfter(posAfter, flip_buffer, k, clean[k], FALSE)]
                      ELSE clean
          /\ UNCHANGED <<lastAutoTs, lastFlipTs>>
     ELSE /\ ev' = [NoEv EXCEPT !.op = op, !.sym = k, !.err = err, !.full = wasFull,
                              !.dup = wasDup, !.cb = warned]
          /\ UNCHANGED <<oppSeen, clean, lastAutoTs, lastFlipTs>>

\* request bodies of POST /paper/order: (qty, stop, tp, leverage, margin_usd)
\* the first sets a stop at $110 and a take-profit at $100, so that each of
\* the three triggers of mark_to_market is the first one met for some entry
OrderBodies ==
  { [qty |-> None, stop |-> 110000, tp |-> 100000, leverage |-> 10, margin_usd |-> 1000],
    [qty |-> 0, stop |-> None, tp |-> None, leverage |-> None, margin_usd |-> None] }

\* ------------------------------------------------------- main.paper_order
PaperOrder(watch, symbol, side, body) ==
  LET k == Upper(symbol)
      price == last_price[k]
      lev == body.leverage
      margin == body.margin_usd
      eff_qty == IF body.qty = None /\ margin # None /\ lev # None
                 THEN (margin * lev * MILLI) \div price
                 ELSE body.qty
  IN \E r \in {PaperOpen(Broker, max_positions, k, side, eff_qty, price,
                         body.stop, body.tp, lev, margin, MAINT_MARGIN_RATE_PM)} :
     \E err \in {IF price = None THEN "No last price yet"
                 ELSE IF eff_qty = None \/ eff_qty <= 0 THEN "qty must be positive"
                 ELSE r.err} :
     \E after \in {IF err = "ok" THEN r.b ELSE Broker} :
     /\ positions' = after.positions
     /\ open_count' = after.open_count
     /\ ApiGhost(watch, "order", symbol, err, after.positions,
                 Cardinality(Held(Broker)) >= max_positions, positions[k] # NoPos,
                 FALSE)
     /\ UNCHANGED <<max_positions, closed_count, last_closed, on_close_calls,
                    signal_cooldown, flip_buffer, last_price>>

\* ------------------------------------------------------- main.paper_close
PaperCloseApi(watch, symbol, cb) ==
  LET k == Upper(symbol)
      price == last_price[k]
  IN \E r \in {PaperClose(BrokerWith(cb), k, price)} :
     \E err \in {IF price = None THEN "No last price yet" ELSE r.err} :
     \E after \in {IF err = "ok" THEN r.b ELSE Broker} :
     /\ after.closed_count <= MaxClosed
     /\ positions' = after.positions
     /\ closed_count' = after.closed_count
     /\ last_closed' = after.last_closed
     /\ on_close_calls' = after.on_close_calls
     /\ open_count' = after.open_count
     /\ ApiGhost(watch, "paper_close", symbol, err, after.positions,
                 Cardinality(Held(Broker)) >= max_positions, positions[k] # NoPos,
                 after.warned)
     /\ UNCHANGED <<max_positions, signal_cooldown, flip_buffer, last_price>>

\* -------------------------------------- PaperBroker.open / close, called directly
\* (side, qty, stop, tp, leverage, margin_usd); open takes any number as qty
EngineBodies ==
  { [side |-> "long", qty |-> 100, stop |-> None, tp |-> None,
     leverage |-> 10, margin_usd |-> 1000],
    [side |-> "short", qty |-> 0, stop |-> None, tp |-> None,
     leverage |-> 10, margin_usd |-> 1000] }

EngineOpen(watch, symbol, price, body) ==
  \E r \in {PaperOpen(Broker, max_positions, symbol, body.side, body.qty, price,
                      body.stop, body.tp, body.leverage, body.margin_usd,
                      MAINT_MARGIN_RATE_PM)} :
     /\ positions' = r.b.positions
     /\ open_count' = r.b.open_count
     /\ ApiGhost(watch, "open", symbol, r.err, r.b.positions,
                 Cardinality(Held(Broker)) >= max_positions,
                 positions[Upper(symbol)] # NoPos, FALSE)
     /\ UNCHANGED <<max_positions, closed_count, last_closed, on_close_calls,
                    signal_cooldown, flip_buffer, last_price>>

EngineClose(watch, symbol, price, cb) ==
  \E r \in {PaperClose(BrokerWith(cb), symbol, price)} :
     /\ r.b.closed_count <= MaxClosed
     /\ positions' = r.b.positions
     /\ closed_count' = r.b.closed_count
     /\ last_closed' = r.b.last_closed
     /\ on_close_calls' = r.b.on_close_calls
     /\ open_count' = r.b.open_count
     /\ ApiGhost(watch, "close", symbol, r.err, r.b.positions,
                 Cardinality(Held(Broker)) >= max_positions,
                 positions[Upper(symbol)] # NoPos, r.b.warned)
     /\ UNCHANGED <<max_positions, signal_cooldown, flip_buffer, last_price>>

\* --------------------------- main.paper_positions -> PaperBroker.snapshot
\* last_price_map: per key a price, None, or no entry (Missing).  The maps are
\* the empty one, the one paper_positions builds from the instrument states,
\* and one that holds a price of its own for every key.
SnapshotMaps ==
  {[k \in RawSymbols |-> Missing], last_price, [k \in RawSymbols |-> 125000]}

\* lpm.get(sym, p.last_price)
SnapshotPrice(pos, lpm, k) == IF lpm[k] = Missing THEN pos.last_price ELSE lpm[k]

\* the row of one position: pnl is computed anew when there is a price
SnapshotRow(pos, lpm, k) ==
  LET lp == SnapshotPrice(pos, lpm, k)
  IN [symbol |-> k, side |-> pos.side, qty |-> pos.qty, entry |-> pos.entry,
      liq_price |-> pos.liq_price, last_price |-> lp,
      pnl |-> IF lp # None THEN Pnl(pos.side, pos.entry, lp, pos.qty) ELSE pos.pnl,
      notional_usd |-> pos.notional_usd, leverage |-> pos.leverage,
      fee_open_usd |-> pos.fee_open_usd]

\* the broker after the call, and the rows returned
PaperSnapshotMarks(b, lpm) ==
  [b |-> [b EXCEPT !.positions =
            [k \in RawSymbols |->
               IF b.positions[k] = NoPos THEN NoPos
               ELSE [b.positions[k] EXCEPT
                       !.pnl = SnapshotRow(b.positions[k], lpm, k).pnl,
                       !.last_price = SnapshotRow(b.positions[k], lpm, k).last_price]]],
   rows |-> {SnapshotRow(b.positions[k], lpm, k) : k \in Held(b)}]
PaperSnapshot(b, lpm) ==
  [b |-> b, rows |-> {SnapshotRow(b.positions[k], lpm, k) : k \in Held(b)}]

Snapshot(watch) ==
  \E lpm \in SnapshotMaps :
  \E r \in {PaperSnapshot(Broker, lpm)} :
     /\ positions' = r.b.positions
     /\ closed_count' = r.b.closed_count
     /\ last_closed' = r.b.last_closed
     /\ on_close_calls' = r.b.on_close_calls
     /\ open_count' = r.b.open_count
     /\ ev' = [NoEv EXCEPT !.op = "snapshot",
                           !.rows = IF watch = "api" THEN r.rows ELSE {}]
     /\ UNCHANGED <<max_positions, signal_cooldown, flip_buffer, last_price,
                    oppSeen, clean, lastAutoTs, lastFlipTs>>

Step(watch) ==
  /\ UNCHANGED schedVars
  /\ UNCHANGED feedVars
  /\ UNCHANGED orderVars
  /\ UNCHANGED calcVars
  /\ \/ \E d \in GoodTradeFrames, dec \in Decisions, cb \in BOOLEAN :
           HandleAggTrade(watch, d, dec, cb)
     \/ \E symbol \in RawSymbols, side \in Sides, body \in OrderBodies :
           PaperOrder(watch, symbol, side, body)
     \/ \E symbol \in RawSymbols, cb \in BOOLEAN : PaperCloseApi(watch, symbol, cb)
     \/ \E symbol \in RawSymbols, price \in EnginePrices, body \in EngineBodies :
           EngineOpen(watch, symbol, price, body)
     \/ \E symbol \in RawSymbols, price \in EnginePrices, cb \in BOOLEAN :
           EngineClose(watch, symbol, price, cb)
     \/ Snapshot(watch)

\* the program, observed at the engine's API
Next == Step("api")
Spec == Init /\ [][Next]_vars

\* the program, observed at the flip/cooldown controller
NextCtl == Step("ctl")
SpecCtl == Init /\ [][NextCtl]_vars

\* the trade feed alone, with two instruments on the stream; the on_close
\* callback returns
PairStamps == {3000, 6000}
PairFrames ==
  {[kind |-> "trade", s |-> sym, p |-> price, q |-> FrameQty, T |-> ts] :
     sym \in Symbols, price \in Prices, ts \in PairStamps}

NextPairs ==
  /\ UNCHANGED schedVars
  /\ UNCHANGED feedVars
  /\ UNCHANGED orderVars
  /\ UNCHANGED calcVars
  /\ \E d \in PairFrames, dec \in Decisions : HandleAggTrade("ctl", d, dec, TRUE)

SpecPairs == Init /\ [][NextPairs]_vars

\* ------------------------------------------------------------ scheduling
\* All handlers are coroutines of one event loop: a coroutine that runs keeps
\* the loop until it reaches an await that suspends it.  _handle_agg_trade is
\* followed here statement by statement; tpc is the statement reached:
\*   "reading"  waiting in `async for raw in ws`
\*   "metrics"  after state.on_agg_trade        "marked"  after mark_to_market
\*   "decided"  after _decide_side              "flipped" after _maybe_flip,
\*   awaiting _maybe_log_signal                 "logged"  awaiting _forward_n8n
AwaitsAnywhere(pc) == TRUE
Awaits(pc) == pc \in {"flipped", "logged"}

\* who holds the loop once trade loop h has reached pc
Release(pc, h) == IF Awaits(pc) THEN "none" ELSE h

\* h may take a step: it holds the loop, or the loop is free
CanRun(h) == active \in {"none", h}

ghostVars == <<oppSeen, clean, lastAutoTs, lastFlipTs>>

SchedTradeMetrics(h, sym, price, ts) ==
  /\ CanRun(h) /\ tpc[h] = "reading"
  /\ last_price' = [last_price EXCEPT ![sym] = price]
  /\ frame' = [frame EXCEPT ![h] = [sym |-> sym, price |-> price, ts |-> ts,
                                     decision |-> "none"]]
  /\ tpc' = [tpc EXCEPT ![h] = "metrics"]
  /\ active' = Release("metrics", h)
  /\ ev' = [NoEv EXCEPT !.op = "trade", !.by = h]
  /\ UNCHANGED <<positions, max_positions, closed_count, last_closed, on_close_calls, open_count,
                 signal_cooldown, flip_buffer, top>>
  /\ UNCHANGED ghostVars

SchedTradeMark(h, cb) ==
  /\ CanRun(h) /\ tpc[h] = "metrics"
  /\ \E m \in {MarkToMarket(BrokerWith(cb), frame[h].sym, frame[h].price)} :
       /\ m.b.closed_count <= MaxClosed
       /\ positions' = m.b.positions
       /\ closed_count' = m.b.closed_count
       /\ last_closed' = m.b.last_closed
       /\ on_close_calls' = m.b.on_close_calls
       /\ open_count' = m.b.open_count
  /\ tpc' = [tpc EXCEPT ![h] = "marked"]
  /\ active' = Release("marked", h)
  /\ ev' = [NoEv EXCEPT !.op = "trade", !.by = h]
  /\ UNCHANGED <<max_positions, signal_cooldown, flip_buffer, last_price, top, frame>>
  /\ UNCHANGED ghostVars

SchedTradeDecide(h, decision) ==
  /\ CanRun(h) /\ tpc[h] = "marked"
  /\ frame' = [frame EXCEPT ![h].decision = decision]
  /\ tpc' = [tpc EXCEPT ![h] = "decided"]
  /\ active' = Release("decided", h)
  /\ ev' = [NoEv EXCEPT !.op = "trade", !.by = h]
  /\ UNCHANGED <<positions, max_positions, closed_count, last_closed, on_close_calls, open_count,
                 signal_cooldown, flip_buffer, last_price, top>>
  /\ UNCHANGED ghostVars

SchedTradeFlip(h, cb) ==
  /\ CanRun(h) /\ tpc[h] = "decided"
  /\ \E f \in {MaybeFlip(BrokerWith(cb), signal_cooldown, flip_buffer, max_positions,
                          frame[h].sym, frame[h].decision, frame[h].price, frame[h].ts)} :
       /\ f.b.closed_count <= MaxClosed
       /\ positions' = f.b.positions
       /\ closed_count' = f.b.closed_count
       /\ last_closed' = f.b.last_closed
       /\ on_close_calls' = f.b.on_close_calls
       /\ open_count' = f.b.open_count
       /\ signal_cooldown' = f.cd
       /\ flip_buffer' = f.fb
  /\ tpc' = [tpc EXCEPT ![h] = "flipped"]
  /\ active' = Release("flipped", h)
  /\ ev' = [NoEv EXCEPT !.op = "trade", !.by = h]
  /\ UNCHANGED <<max_positions, last_price, top, frame>>
  /\ UNCHANGED ghostVars

\* _maybe_log_signal has returned; _forward_n8n is awaited
SchedTradeLog(h) ==
  /\ CanRun(h) /\ tpc[h] = "flipped"
  /\ tpc' = [tpc EXCEPT ![h] = "logged"]
  /\ active' = Release("logged", h)
  /\ ev' = [NoEv EXCEPT !.op = "trade", !.by = h]
  /\ UNCHANGED <<positions, max_positions, closed_count, last_closed, on_close_calls, open_count,
                 signal_cooldown, flip_buffer, last_price, top, frame>>
  /\ UNCHANGED ghostVars

\* _forward_n8n has returned; the handler returns and the loop awaits a frame
SchedTradeForward(h) ==
  /\ CanRun(h) /\ tpc[h] = "logged"
  /\ tpc' = [tpc EXCEPT ![h] = "reading"]
  /\ frame' = [frame EXCEPT ![h] = NoFrame]
  /\ active' = "none"
  /\ ev' = [NoEv EXCEPT !.op = "trade", !.by = h]
  /\ UNCHANGED <<positions, max_positions, closed_count, last_closed, on_close_calls, open_count,
                 signal_cooldown, flip_buffer, last_price, top>>
  /\ UNCHANGED ghostVars

\* ------------------------------------------- BinanceWSClient._handle_depth
\* no await between the parse and state.on_top: one step
ParseDepth(d) ==
  IF d.s = "" THEN [ok |-> FALSE]
  ELSE IF d.b \in {Missing, NotNumeric} \/ d.a \in {Missing, NotNumeric}
  THEN [ok |-> FALSE]
  ELSE [ok |-> TRUE, sym |-> d.s, best_bid |-> d.b, best_ask |-> d.a]

HandleDepth(d) ==
  /\ active = "none"
  /\ \E r \in {ParseDepth(d)} :
       top' = IF r.ok THEN [top EXCEPT ![r.sym] = <<r.best_bid, r.best_ask>>] ELSE top
  /\ ev' = [NoEv EXCEPT !.op = "depth", !.raw = d]
  /\ UNCHANGED <<positions, max_positions, closed_count, last_closed, on_close_calls, open_count,
                 signal_cooldown, flip_buffer, last_price, active, tpc, frame>>
  /\ UNCHANGED ghostVars

\* the endpoints are coroutines without an await between their reads and writes
Endpoint ==
  /\ active = "none"
  /\ UNCHANGED schedVars
  /\ \/ \E symbol \in Traded, side \in Sides, body \in OrderBodies :
           PaperOrder("sched", symbol, side, body)
     \/ \E symbol \in Traded, cb \in BOOLEAN : PaperCloseApi("sched", symbol, cb)
     \/ Snapshot("sched")

NextSched ==
  /\ UNCHANGED feedVars
  /\ UNCHANGED orderVars
  /\ UNCHANGED calcVars
  /\ \/ \E h \in TradeLoops, sym \in Traded, price \in Prices, ts \in SchedStamps :
           SchedTradeMetrics(h, sym, price, ts)
     \/ \E h \in TradeLoops, cb \in BOOLEAN : SchedTradeMark(h, cb)
     \/ \E h \in TradeLoops, d \in Sides : SchedTradeDecide(h, d)
     \/ \E h \in TradeLoops, cb \in BOOLEAN : SchedTradeFlip(h, cb)
     \/ \E h \in TradeLoops : SchedTradeLog(h)
     \/ \E h \in TradeLoops : SchedTradeForward(h)
     \/ \E d \in GoodDepthFrames : HandleDepth(d)
     \/ Endpoint

\* the program, one statement of the trade handler at a time
SpecSched == Init /\ [][NextSched]_vars

\* the two feed handlers, called with every frame of TradeFrames and DepthFrames
TradeFeed(d, decision, cb) ==
  /\ HandleAggTrade("frames", d, decision, cb)
  /\ UNCHANGED schedVars

NextFrames ==
  /\ UNCHANGED feedVars
  /\ UNCHANGED orderVars
  /\ UNCHANGED calcVars
  /\ \/ \E d \in TradeFrames, dec \in Decisions, cb \in BOOLEAN : TradeFeed(d, dec, cb)
     \/ \E d \in DepthFrames : HandleDepth(d)

SpecFrames == Init /\ [][NextFrames]_vars

\* ------------------------------------------------------------ _decide_side alone
InitDecide ==
  /\ InitProgram
  /\ din \in DecideInputs
  /\ dout = "unset"
  /\ sstate = NewSymbolState

DecideCall ==
  /\ dout = "unset"
  /\ dout' = DecideSide(din)
  /\ UNCHANGED <<din, sstate, positions, max_positions, closed_count, last_closed,
                 on_close_calls, open_count, signal_cooldown, flip_buffer, last_price, ev>>
  /\ UNCHANGED <<ghostVars, schedVars, feedVars, orderVars>>

NextDecide == DecideCall

SpecDecide == InitDecide /\ [][NextDecide]_vars

\* ------------------------------------------------------------ SymbolState alone
otherVars == <<positions, max_positions, closed_count, last_closed, on_close_calls, open_count,
               signal_cooldown, flip_buffer, last_price>>

\* _handle_agg_trade's conversion of m and MarketState.on_agg_trade for the
\* instrument
StateTrade(p, q, t, m) ==
  /\ Len(sstate.seen) < MaxTrades
  /\ sstate' = [OnTrade(sstate, p, q, t, IsBuyAggr(BuyerIsMaker(m))) EXCEPT
                  !.seen = Append(sstate.seen, [ts |-> t, p |-> p, q |-> q, m |-> m])]
  /\ din' = NoMetrics
  /\ dout' = "unset"
  /\ ev' = [NoEv EXCEPT !.op = "trade"]
  /\ UNCHANGED otherVars
  /\ UNCHANGED <<ghostVars, schedVars, feedVars, orderVars>>

\* st.vwap(window_ms), as _decide_side and snapshot call it
StateVwap(window_ms) ==
  /\ sstate.last_ts # None
  /\ din' = window_ms
  /\ dout' = Vwap(sstate, window_ms)
  /\ ev' = [NoEv EXCEPT !.op = "vwap"]
  /\ UNCHANGED sstate
  /\ UNCHANGED otherVars
  /\ UNCHANGED <<ghostVars, schedVars, feedVars, orderVars>>

NextState ==
  \/ \E p \in StatePrices, q \in StateQtys, t \in StateStamps :
        StateTrade(p, q, t, "False")
  \/ StateVwap(VWAP_WINDOW_MS)

SpecState == Init /\ [][NextState]_vars

\* the trades of one connection, at one price
NextCvd ==
  \E q \in StateQtys, gap \in CvdGaps, m \in CvdMakers :
     StateTrade(100000, q, IF sstate.last_ts = None THEN gap ELSE sstate.last_ts + gap, m)

SpecCvd == Init /\ [][NextCvd]_vars

\* -------------------------------------------------- the top of the book alone
\* MarketState.on_top for the instrument
StateTop(best_bid, best_ask, bid_vol, ask_vol) ==
  /\ sstate.depth_n < MaxTops
  /\ sstate' = OnDepthTop(sstate, best_bid, best_ask, bid_vol, ask_vol)
  /\ din' = NoMetrics
  /\ dout' = "unset"
  /\ ev' = [NoEv EXCEPT !.op = "depth"]
  /\ UNCHANGED otherVars
  /\ UNCHANGED <<ghostVars, schedVars, feedVars, orderVars>>

\* st.spread_bps(), as _decide_side and snapshot call it
StateSpread ==
  /\ dout' = SpreadBps(sstate)
  /\ ev' = [NoEv EXCEPT !.op = "spread"]
  /\ UNCHANGED <<din, sstate>>
  /\ UNCHANGED otherVars
  /\ UNCHANGED <<ghostVars, schedVars, feedVars, orderVars>>

NextBook ==
  \/ \E b \in BookPrices, a \in BookPrices, bv \in BookVols, av \in BookVols :
        StateTop(b, a, bv, av)
  \/ StateSpread

SpecBook == Init /\ [][NextBook]_vars

\* ------------------------------------------------- connections: run, _ws_loop
\* loop[f] is the state of feed f's _ws_loop task of the current gather:
\*   "none" no task; "connecting" in websockets.connect; "reading" in
\*   `async for raw in ws`; "returned" the connection was closed normally and
\*   the coroutine returned; "raised" a transport error left it
\*   (ConnectionClosedError, WebSocketException, OSError); "failed" another
\*   exception left it; "cancelled".
\* run_pc: "init" before run(); "gather" in `await asyncio.gather`; "backoff"
\* and "sleep2" in the sleeps of the two except branches; "exited" after the
\* while loop; "cancelled".
Alive(st) == st \in {"connecting", "reading"}

coreVars == <<positions, max_positions, closed_count, last_closed, on_close_calls, open_count,
              signal_cooldown, flip_buffer, last_price, oppSeen, clean,
              lastAutoTs, lastFlipTs, top, active, tpc, frame, din, dout, sstate>>

\* run(): the top of `while self._running` up to the await of gather.  A task
\* of an earlier gather that is still alive is not cancelled: it stays behind.
StartTasks ==
  IF running'
  THEN /\ loop' = [f \in Feeds |-> "connecting"]
       /\ orphan' = [f \in Feeds |-> orphan[f] \/ Alive(loop[f])]
       /\ run_pc' = "gather"
  ELSE /\ run_pc' = "exited"
       /\ UNCHANGED <<loop, orphan>>

\* main._startup: the task of client.run() starts
RunStart ==
  /\ run_pc = "init"
  /\ running' = TRUE
  /\ StartTasks
  /\ ev' = [NoEv EXCEPT !.op = "run"]
  /\ UNCHANGED cancel_req

\* websockets.connect returns, or fails with a transport error
Connect(f, ok) ==
  /\ loop[f] = "connecting"
  /\ loop' = [loop EXCEPT ![f] = IF ok THEN "reading" ELSE "raised"]
  /\ ev' = [NoEv EXCEPT !.op = "connect", !.feed = f]
  /\ UNCHANGED <<running, run_pc, cancel_req, orphan>>

\* one frame, in the body of `async for raw in ws`
Frame(f, kind) ==
  /\ loop[f] = "reading"
  /\ loop' = [loop EXCEPT ![f] = IF kind = "decode_raises" THEN "failed" ELSE "reading"]
  /\ ev' = [NoEv EXCEPT !.op = "frame", !.feed = f, !.kind = kind, !.by = "loop"]
  /\ UNCHANGED <<running, run_pc, cancel_req, orphan>>

\* the connection ends: closed normally (the iteration ends) or with an error
ConnectionEnds(f, clean_close) ==
  /\ loop[f] = "reading"
  /\ loop' = [loop EXCEPT ![f] = IF clean_close THEN "returned" ELSE "raised"]
  /\ ev' = [NoEv EXCEPT !.op = "end", !.feed = f]
  /\ UNCHANGED <<running, run_pc, cancel_req, orphan>>

\* a frame on a loop left behind by an earlier gather
OrphanFrame(f, kind) ==
  /\ orphan[f]
  /\ orphan' = [orphan EXCEPT ![f] = kind # "decode_raises"]
  /\ ev' = [NoEv EXCEPT !.op = "frame", !.feed = f, !.kind = kind, !.by = "orphan"]
  /\ UNCHANGED <<running, run_pc, cancel_req, loop>>

OrphanEnds(f) ==
  /\ orphan[f]
  /\ orphan' = [orphan EXCEPT ![f] = FALSE]
  /\ ev' = [NoEv EXCEPT !.op = "end", !.feed = f, !.by = "orphan"]
  /\ UNCHANGED <<running, run_pc, cancel_req, loop>>

\* gather is done: every task returned (back to the top of the while loop), or
\* the first exception of a task is raised into run() while the other task
\* goes on running
GatherDone ==
  /\ run_pc = "gather" /\ ~cancel_req
  /\ \/ /\ \A f \in Feeds : loop[f] = "returned"
        /\ UNCHANGED running
        /\ StartTasks
     \/ /\ \E f \in Feeds : loop[f] = "raised"
        /\ run_pc' = "backoff"
        /\ UNCHANGED <<running, loop, orphan>>
     \/ /\ \E f \in Feeds : loop[f] = "failed"
        /\ run_pc' = "sleep2"
        /\ UNCHANGED <<running, loop, orphan>>
  /\ ev' = [NoEv EXCEPT !.op = "gather"]
  /\ UNCHANGED cancel_req

\* the sleep of an except branch is over: back to the top of the while loop
SleepDone ==
  /\ run_pc \in {"backoff", "sleep2"} /\ ~cancel_req
  /\ UNCHANGED running
  /\ StartTasks
  /\ ev' = [NoEv EXCEPT !.op = "restart"]
  /\ UNCHANGED cancel_req

\* main._shutdown: client.stop(), then task.cancel()
Shutdown ==
  /\ running
  /\ running' = FALSE
  /\ cancel_req' = TRUE
  /\ ev' = [NoEv EXCEPT !.op = "shutdown"]
  /\ UNCHANGED <<run_pc, loop, orphan>>

\* CancelledError reaches run() at its await: a gather that is awaited
\* cancels its tasks, a sleep just ends
CancelDelivered ==
  /\ cancel_req
  /\ cancel_req' = FALSE
  /\ run_pc' = "cancelled"
  /\ loop' = IF run_pc = "gather"
             THEN [f \in Feeds |-> IF Alive(loop[f]) THEN "cancelled" ELSE loop[f]]
             ELSE loop
  /\ ev' = [NoEv EXCEPT !.op = "cancel"]
  /\ UNCHANGED <<running, orphan>>

NextFeed ==
  /\ UNCHANGED coreVars
  /\ UNCHANGED orderVars
  /\ \/ RunStart
     \/ \E f \in Feeds, ok \in BOOLEAN : Connect(f, ok)
     \/ \E f \in Feeds, kind \in FrameKinds : Frame(f, kind)
     \/ \E f \in Feeds, c \in BOOLEAN : ConnectionEnds(f, c)
     \/ \E f \in Feeds, kind \in FrameKinds : OrphanFrame(f, kind)
     \/ \E f \in Feeds : OrphanEnds(f)
     \/ GatherDone
     \/ SleepDone
     \/ Shutdown
     \/ CancelDelivered

\* the connections of the two feeds
SpecFeed == Init /\ [][NextFeed]_vars

\* the event loop runs a task that is ready: gather and sleep wake up, a
\* cancellation is delivered.  Nothing is assumed of the network.
SpecFeedFair ==
  /\ SpecFeed
  /\ WF_vars(UNCHANGED coreVars /\ UNCHANGED orderVars /\ GatherDone)
  /\ WF_vars(UNCHANGED coreVars /\ UNCHANGED orderVars /\ SleepDone)
  /\ WF_vars(UNCHANGED coreVars /\ UNCHANGED orderVars /\ CancelDelivered)

\* ------------------------------------------------ the events on the connections
\* A stream carries the events 1, 2, ... in the order the venue publishes them.
\* A connection delivers, in that order, the events published after it was
\* made: conn[f].loop is the next event of the _ws_loop task of the current
\* gather, conn[f].orphan that of a task left behind (0: no open connection).

\* the venue publishes one more event on stream f
Publish(f) ==
  /\ sent["trade"] + sent["depth"] < MaxEvents
  /\ sent' = [sent EXCEPT ![f] = sent[f] + 1]
  /\ ev' = [NoEv EXCEPT !.op = "publish", !.feed = f]
  /\ UNCHANGED <<conn, handled, done>>
  /\ UNCHANGED feedVars

\* the handler is awaited for a frame of this kind (_ws_loop, lines 348-358)
CallsHandler(kind) == kind \in {"ok", "handler_raises"}

\* the connections after a step of the connection model that reads no frame:
\* a task that starts reading joins the stream where it is now, a task that is
\* left behind keeps its connection
Connections ==
  /\ conn' = [f \in Feeds |->
              [loop   |-> IF loop'[f] # "reading" THEN 0
                          ELSE IF loop[f] = "reading" THEN conn[f].loop
                          ELSE sent[f] + 1,
               orphan |-> IF ~orphan'[f] THEN 0
                          ELSE IF orphan[f] THEN conn[f].orphan
                          ELSE IF loop[f] = "reading" THEN conn[f].loop
                          ELSE sent[f] + 1]]
  /\ UNCHANGED <<sent, handled, done>>

\* connection c of stream f delivers its next event and the body of
\* `async for raw in ws` runs for it
Deliver(f, c, kind) ==
  /\ conn[f][c] \in 1..sent[f]
  /\ \E n \in {conn[f][c]} :
       /\ handled' = IF CallsHandler(kind)
                     THEN [handled EXCEPT ![f][n] = handled[f][n] + 1]
                     ELSE handled
       /\ done' = IF CallsHandler(kind) THEN [done EXCEPT ![f] = n] ELSE done
       /\ conn' = [conn EXCEPT ![f][c] = IF kind = "decode_raises" THEN 0 ELSE n + 1]
  /\ UNCHANGED sent

NextOrder ==
  /\ UNCHANGED coreVars
  /\ \/ \E f \in Feeds : Publish(f)
     \/ RunStart /\ Connections
     \/ \E f \in Feeds, ok \in BOOLEAN : Connect(f, ok) /\ Connections
     \/ \E f \in Feeds, kind \in FrameKinds : Frame(f, kind) /\ Deliver(f, "loop", kind)
     \/ \E f \in Feeds, c \in BOOLEAN : ConnectionEnds(f, c) /\ Connections
     \/ \E f \in Feeds, kind \in FrameKinds :
           OrphanFrame(f, kind) /\ Deliver(f, "orphan", kind)
     \/ \E f \in Feeds : OrphanEnds(f) /\ Connections
     \/ GatherDone /\ Connections
     \/ SleepDone /\ Connections
     \/ Shutdown /\ Connections
     \/ CancelDelivered /\ Connections

\* the connections of the two feeds and the events they deliver
SpecOrder == Init /\ [][NextOrder]_vars

\* ====================================================================== claims
HeldKeys == Held(Broker)

\* C1: in every reachable state the live position set holds at most one open
\* position per symbol (spellings of one symbol count as that symbol), and
\* every position is stored under its own symbol.
C1_OnePositionPerSymbol ==
  /\ \A k1, k2 \in HeldKeys : Upper(k1) = Upper(k2) => k1 = k2
  /\ \A k \in HeldKeys : positions[k].symbol = k /\ k \in Symbols

\* a second open of a held symbol, in another spelling, was refused
C1_Witness ==
  /\ ev.op = "open" /\ ev.dup /\ ev.err # "ok"
  /\ positions["BTCUSDT"] # NoPos /\ positions["ETHUSDT"] # NoPos

\* C2: a flip is executed only after at least two opposite-side decisions in
\* a row (no aligned or none decision between them) were observed for the
\* symbol since the position was opened.
C2_FlipNeedsTwoOpposite ==
  (ev.op = "trade" /\ ev.flip) => ev.opp >= FLIP_CONFIRM

\* C3: from an open long position and no flip state, with [short, short]
\* arriving in order and no stop/take-profit/liquidation trigger, nothing is
\* closed or opened on the first short and the long is closed by a flip on
\* the second.
C3_FlipOnSecondShort ==
  (ev.op = "trade" /\ ev.side = "long" /\ ev.dec = "short") =>
     /\ ev.first => /\ ~ev.flip /\ ~ev.opened /\ ~ev.mtm
                    /\ positions[ev.sym] # NoPos
                    /\ positions[ev.sym].side = "long"
     /\ ev.second => ev.flip

C3_Witness ==
  ev.op = "trade" /\ ev.side = "long" /\ ev.dec = "short" /\ ev.second /\ ev.flip

\* C4: when a position is open and the decision is none or the position's
\* side, then after the event no flip state remains for the symbol and the
\* controller has opened and closed nothing.
C4_AlignedOrNoneClears ==
  (ev.op = "trade" /\ ev.side # "none" /\ ev.dec \in {"none", ev.side}) =>
     /\ flip_buffer[ev.sym] = NoFlip
     /\ ~ev.flip /\ ~ev.opened

\* C5: whenever a flip executes (the counter reaches the threshold and the
\* position is closed), the event ends with an open position on the opposite
\* side and no flip state for the symbol.
C5_FlipReopensOpposite ==
  (ev.op = "trade" /\ ev.flip) =>
     /\ positions[ev.sym] # NoPos
     /\ positions[ev.sym].side = Opposite(ev.side)
     /\ flip_buffer[ev.sym] = NoFlip

\* C6: two successive automatic opens of a symbol (from flat or as the open
\* half of a flip) carry event timestamps at least the cooldown apart.
C6_AutoOpenCooldown ==
  ev.op = "trade" => \A gap \in ev.autoGap : gap >= SIGNAL_COOLDOWN_MS

\* a second automatic open happened, as the open half of a flip
C6_Witness ==
  ev.op = "trade" /\ ev.opened /\ ev.flip /\ ev.autoGap # {}

\* C7: two flips of one symbol are separated by a minimum (positive)
\* interval of event time.
C7_FlipInterval ==
  (ev.op = "trade" /\ ev.flip) => \A gap \in ev.flipGap : gap > 0

\* C8: open for a symbol that already holds a position fails with the
\* already-open error and changes nothing in the engine, also when the
\* position limit is reached.
C8_DuplicateOpenFails ==
  [][ (ev'.op = "open" /\ ev'.dup) =>
        /\ ev'.err = "already has an open position"
        /\ UNCHANGED <<positions, closed_count, last_closed, on_close_calls>> ]_vars

C8_Witness ==
  ev.op = "open" /\ ev.dup /\ ev.full /\ ev.err = "already has an open position"

\* C9: the number of open positions never exceeds max_positions, and an open
\* attempted when the count equals the maximum fails and adds no position.
C9_MaxPositions ==
  /\ [](Cardinality(HeldKeys) <= max_positions)
  /\ [][ (ev'.op \in {"open", "order"} /\ ev'.full) =>
           /\ ev'.err # "ok"
           /\ UNCHANGED positions ]_vars

C9_Witness ==
  /\ ev.op = "open" /\ ev.full /\ ~ev.dup /\ ev.err = "max positions reached"
  /\ Cardinality(HeldKeys) = max_positions

\* C10: close for a symbol without an open position fails with an error,
\* emits no record and leaves positions, closed_count and last_closed as
\* they were.
C10_CloseWithoutPositionFails ==
  [][ (ev'.op = "close" /\ ~ev'.dup) =>
        /\ ev'.err = "No open position for symbol"
        /\ UNCHANGED <<positions, closed_count, last_closed, on_close_calls>> ]_vars

C10_Witness ==
  /\ ev.op = "close" /\ ~ev.dup /\ ev.err = "No open position for symbol"
  /\ closed_count > 0 /\ HeldKeys # {}

\* C11: every successful close removes the position from the live set and
\* emits exactly one closed-position record for it: closed_count grows by
\* one, on_close is invoked once and last_closed is the record of the
\* position that was held; nothing leaves the live set and no record appears
\* without a close, and a closed position is gone (what the key holds
\* afterwards, if anything, is a position opened after the close).
C11_CloseEmitsOneRecord ==
  /\ [](on_close_calls = closed_count /\ (last_closed = NoRec <=> closed_count = 0))
  /\ [][ /\ closed_count' \in {closed_count, closed_count + 1}
         /\ closed_count' = closed_count =>
              /\ last_closed' = last_closed
              /\ \A k \in HeldKeys : positions'[k] # NoPos
         /\ closed_count' = closed_count + 1 =>
              \E k \in HeldKeys :
                 /\ last_closed'.symbol = k
                 /\ last_closed'.side = positions[k].side
                 /\ last_closed'.qty = positions[k].qty
                 /\ last_closed'.entry = positions[k].entry
                 /\ on_close_calls' = on_close_calls + 1
                 /\ \/ positions'[k] = NoPos
                    \/ /\ ev'.op = "trade"
                       /\ positions'[k].last_price = None
                       /\ positions'[k] # positions[k]
                 /\ \A j \in HeldKeys \ {k} : positions'[j] = positions[j] ]_vars

C11_Witness ==
  /\ ev.op = "paper_close" /\ ev.err = "ok"
  /\ closed_count = MaxClosed
  /\ positions[ev.sym] = NoPos /\ last_closed.symbol = ev.sym

\* C12: mark_to_market on an open position checks liquidation, then
\* take-profit, then stop-loss; it closes the position at the given price
\* exactly when one of them is met, closes at most once, and otherwise leaves
\* the position open with only pnl and last_price updated.
C12_MarkToMarketTriggers ==
  [][ (ev'.op = "trade" /\ positions[ev'.sym] # NoPos) =>
        LET k == ev'.sym
            pos == positions[k]
            price == last_price'[k]
            long == pos.side = "long"
            crossedLiq == pos.liq_price # None /\
                          IF long THEN price <= pos.liq_price ELSE price >= pos.liq_price
            crossedTp == pos.tp # None /\
                         IF long THEN price >= pos.tp ELSE price <= pos.tp
            crossedSl == pos.stop # None /\
                         IF long THEN price <= pos.stop ELSE price >= pos.stop
            want == IF crossedLiq THEN "liq" ELSE IF crossedTp THEN "tp"
                    ELSE IF crossedSl THEN "sl" ELSE "none"
            marked == [pos EXCEPT !.pnl = IF long THEN (price - pos.entry) * pos.qty
                                          ELSE (pos.entry - price) * pos.qty,
                                  !.last_price = price]
        IN /\ ev'.why = want
           /\ ev'.mtm <=> (crossedLiq \/ crossedTp \/ crossedSl)
           /\ ev'.mtm => /\ closed_count' = closed_count + 1
                         /\ last_closed'.symbol = k
                         /\ last_closed'.entry = pos.entry
                         /\ last_closed'.exit = price
           /\ (~ev'.mtm /\ ~ev'.flip) => /\ positions'[k] = marked
                                         /\ closed_count' = closed_count ]_vars

\* a stop-loss close: neither the liquidation nor the take-profit was met
C12_Witness ==
  ev.op = "trade" /\ ev.mtm /\ ev.why = "sl" /\ last_closed.symbol = ev.sym

\* C13: the liquidation price of a position is the value computed at open
\* from entry, leverage and maintenance-margin rate in every later state of
\* the position: a step that does not close the position (mark-to-market,
\* snapshot, failed open, failed close) leaves it as it was, and the closed
\* record carries the same value.
C13_LiqPriceFixed ==
  /\ [](\A k \in HeldKeys :
           positions[k].liq_price =
             IF positions[k].side = "long"
             THEN (positions[k].entry * (MILLI * positions[k].leverage - MILLI
                     + MAINT_MARGIN_RATE_PM * positions[k].leverage))
                  \div (MILLI * positions[k].leverage)
             ELSE (positions[k].entry * (MILLI * positions[k].leverage + MILLI
                     - MAINT_MARGIN_RATE_PM * positions[k].leverage))
                  \div (MILLI * positions[k].leverage))
  /\ [][ /\ \A k \in HeldKeys :
              (positions'[k] # NoPos /\ closed_count' = closed_count) =>
                 positions'[k].liq_price = positions[k].liq_price
         /\ closed_count' # closed_count =>
              last_closed'.liq_price = positions[last_closed'.symbol].liq_price ]_vars

\* a position marked at a price other than its entry, then projected
C13_Witness ==
  /\ ev.op = "snapshot"
  /\ positions["BTCUSDT"] # NoPos
  /\ positions["BTCUSDT"].last_price # None
  /\ positions["BTCUSDT"].last_price # positions["BTCUSDT"].entry
  /\ closed_count > 0

\* C14: every position in the live set has quantity > 0.
C14_PositiveQty ==
  \A k \in HeldKeys : positions[k].qty > 0

\* C15: when on_close raises while a position is being closed, the close
\* still takes effect: the position is gone from the live set, closed_count
\* is incremented, last_closed holds its record and close returns normally.
C15_CallbackFailureKeepsClose ==
  [][ ev'.cb =>
        LET k == ev'.sym
        IN /\ ev'.err = "ok"
           /\ positions[k] # NoPos
           /\ closed_count' = closed_count + 1
           /\ last_closed'.symbol = k
           /\ last_closed'.entry = positions[k].entry
           /\ \/ positions'[k] = NoPos
              \/ /\ ev'.op = "trade"
                 /\ positions'[k].last_price = None
                 /\ positions'[k] # positions[k] ]_vars

C15_Witness ==
  /\ ev.cb /\ ev.op = "close" /\ ev.err = "ok"
  /\ positions[ev.sym] = NoPos /\ last_closed.symbol = ev.sym

\* C16: an open that follows a successful close of the same symbol succeeds
\* (neither the duplicate check nor the position limit refuses it), and the
\* new position's liquidation price is the one computed from its own entry,
\* leverage and maintenance-margin rate.
C16_CloseThenOpen ==
  [][ (ev.op \in {"close", "paper_close"} /\ ev.err = "ok" /\
       ev'.op \in {"open", "order"} /\ ev'.sym = ev.sym) =>
        /\ ev'.op = "open" => ev'.err = "ok"
        /\ ev'.op = "order" =>
             ev'.err \notin {"already has an open position", "max positions reached"}
        /\ ev'.err = "ok" =>
             /\ positions'[ev.sym] # NoPos
             /\ positions'[ev.sym].liq_price =
                  ApproxLiqPrice(positions'[ev.sym].side, positions'[ev.sym].entry,
                                 positions'[ev.sym].leverage,
                                 positions'[ev.sym].maint_margin_rate) ]_vars

\* re-opened at the position limit, with a liquidation price other than the
\* closed position's
C16_Witness ==
  /\ ev.op = "open" /\ ev.err = "ok"
  /\ last_closed # NoRec /\ last_closed.symbol = ev.sym
  /\ positions[ev.sym].liq_price # last_closed.liq_price
  /\ Cardinality(HeldKeys) = max_positions

\* C17: handling of one trade event is atomic: from its metrics update
\* (on_agg_trade) to the completion of its _maybe_flip, no book-ticker
\* handler, other trade handler or manual open/close changes the
\* instrument state, the position map or the flip/cooldown maps.
C17_TradeHandlerAtomic ==
  [][ \A h \in TradeLoops :
        (tpc[h] \in {"metrics", "marked", "decided"} /\
         ~(ev'.op = "trade" /\ ev'.by = h)) =>
           UNCHANGED <<positions, closed_count, last_closed, flip_buffer,
                       signal_cooldown, last_price, top>> ]_vars

\* a handler between its mark_to_market and its _maybe_flip, with a position
\* held and the book already written by the other feed
C17_Witness ==
  \E h \in TradeLoops :
     /\ tpc[h] = "decided" /\ active = h
     /\ positions[frame[h].sym] # NoPos
     /\ top[frame[h].sym] # NoTop

\* C18: whenever a feed's connection ends while the client is running, by a
\* transport error or by a clean close of that feed alone, a new connection
\* for that feed is eventually started (unless the client is stopped first).
C18_FeedReconnects ==
  \A f \in Feeds :
     [](( running /\ loop[f] \in {"returned", "raised"}) =>
          <>(loop[f] = "connecting" \/ ~running))

\* C19: after the stop signal both feed loops eventually exit: from some
\* point on no loop of either feed is alive, so that no frame is handled and
\* no connection is started.
C19_StopEndsLoops ==
  [](ev.op = "shutdown" =>
       <>[](\A f \in Feeds : ~Alive(loop[f]) /\ ~orphan[f]))

\* C20: a frame that cannot be decoded, or one whose handler raises, does not
\* end the feed loop: the loop is reading the same connection afterwards.
C20_BadFrameKeepsLoop ==
  [][ (ev'.op = "frame" /\ ev'.by = "loop" /\
       ev'.kind \in {"not_json", "not_dict", "handler_raises", "decode_raises"}) =>
         loop'[ev'.feed] = "reading" ]_vars

\* C21: a trade frame without symbol, price, quantity or trade timestamp, or
\* with a value that is not a number, and a book frame without symbol, best
\* bid or best ask, is dropped: the instrument state (last price, top of
\* book), the position map, the flip map and the cooldown map are what they
\* were before the handler was called with it.
C21_Malformed(d) ==
  \/ d.s = ""
  \/ d.kind = "trade" /\ (d.p < 0 \/ d.q < 0 \/ d.T < 0)
  \/ d.kind = "depth" /\ (d.b < 0 \/ d.a < 0)

C21_MalformedFrameDropped ==
  [][(ev'.raw # NoFrame /\ C21_Malformed(ev'.raw))
       => UNCHANGED <<last_price, top, positions, flip_buffer, signal_cooldown,
                      closed_count, last_closed>>]_vars

\* a malformed trade frame arrived while a position, a price and a book were there
C21_Witness ==
  /\ ev.raw # NoFrame /\ C21_Malformed(ev.raw) /\ ev.raw.kind = "trade"
  /\ positions["BTCUSDT"] # NoPos
  /\ top["BTCUSDT"] # NoTop
  /\ signal_cooldown["BTCUSDT"] # None

\* C22: within each feed every delivered event is processed exactly once and
\* in the order of delivery: no event reaches a handler twice, and the event a
\* handler is called with is never an earlier one than that of the call before.
C22_InOrderExactlyOnce ==
  /\ [](\A f \in Feeds : \A n \in 1..MaxEvents : handled[f][n] <= 1)
  /\ [][\A f \in Feeds : done'[f] >= done[f]]_vars

\* the metrics the decision names, and whether each is defined
C23_Undefined(m) ==
  \/ None \in {m.lp, m.ef, m.es, m.rsi, m.atr, m.spr, m.tick, m.bp, m.imb,
                m.volsp, m.cvd10, m.srpct}
  \/ m.vwap_dev_pct = None /\ (m.vwap \in {None, 0} \/ m.lp \in {None, 0})

\* C23: _decide_side returns None whenever one of the metrics it pulls is
\* undefined: last price, fast EMA, slow EMA, RSI, VWAP deviation, ATR-like
\* value, spread, tick rate, buy pressure, imbalance, volume-spike ratio, CVD
\* or support/resistance distance.
C23_UndefinedMetricGivesNone ==
  (dout # "unset" /\ C23_Undefined(din)) => dout = "none"

\* C24: a spread above MAX_SPREAD_BPS, an ATR-like value outside
\* [ATR_MIN, ATR_MAX] or a tick rate below MIN_TICKS_PER_SEC makes
\* _decide_side return None, whatever the other metrics are.
C24_HardFilterVetoes ==
  (/\ dout # "unset"
   /\ \/ din.spr # None /\ din.spr > MAX_SPREAD_BPS
      \/ din.atr # None /\ (din.atr < ATR_MIN \/ din.atr > ATR_MAX)
      \/ din.tick # None /\ din.tick < MIN_TICKS_PER_SEC)
  => dout = "none"

\* the tick rate alone is below its floor, every other metric favours long
C24_Witness ==
  /\ dout = "none"
  /\ din = [DecideLongBase EXCEPT !.tick = 5]

\* C25 (evidence): long_ok and short_ok never hold together, for they ask for
\* ef > es and ef < es; the order of the two returns at lines 148-151 is not
\* observable.
C25_PredicatesExclusive ==
  din # NoMetrics => ~(LongOk(din, VwapDev(din)) /\ ShortOk(din, VwapDev(din)))

\* C26: when the hard filters pass, fast EMA > slow EMA, buy pressure and
\* imbalance are at or above their floors, the VWAP deviation is within its
\* bound, the volume spike is at or above its floor, CVD is positive, the S/R
\* distance is above the proximity threshold and RSI is at or below its
\* ceiling, _decide_side returns "long".
C26_LongScenario ==
  (/\ dout # "unset"
   /\ None \notin {din.lp, din.ef, din.es, din.atr, din.spr, din.tick, din.bp,
                    din.rsi, din.imb, din.volsp, din.cvd10, din.srpct, din.vwap}
   /\ din.spr <= MAX_SPREAD_BPS
   /\ ATR_MIN <= din.atr /\ din.atr <= ATR_MAX
   /\ din.tick >= MIN_TICKS_PER_SEC
   /\ din.ef > din.es
   /\ din.bp >= BUY_PRESSURE_MIN
   /\ din.imb >= IMB_LONG_MIN
   /\ din.vwap > 0
   /\ Abs(din.lp - din.vwap) * RATIO <= VWAP_DEV_MAX * din.vwap
   /\ din.volsp >= VOL_SPIKE_MIN
   /\ din.cvd10 > 0
   /\ din.srpct > SR_NEAR_PCT
   /\ din.rsi <= RSI_LONG_MAX)
  => dout = "long"

\* fastEMA=101, slowEMA=100, buyPressure=0.6, imbalance=1.3,
\* vwapDeviation=0.001, volumeSpike=2.0, cvd=50, srDistance=0.005, rsi=60
C26_Witness ==
  /\ dout = "long"
  /\ din.ef = 101000 /\ din.es = 100000 /\ din.bp = 60 /\ din.imb = 130
  /\ din.lp = 100100 /\ din.vwap = 100000 /\ din.vwap_dev_pct = None
  /\ din.volsp = 200 /\ din.cvd10 = 50 /\ din.srpct = 500 /\ din.rsi = 60
  /\ din.spr = 2 /\ din.atr = 100 /\ din.tick = 20

\* C27: the liquidation price a position is stored with is
\* entry * (1 - 1/leverage + mmr) for a long and entry * (1 + 1/leverage - mmr)
\* for a short; for entry 100, leverage 10 and mmr 0.004 it is 90.4 and 109.6.
C27_LiqPriceFormula ==
  \A k \in HeldKeys :
    LET p == positions[k]
        tenth == p.entry \div p.leverage
        maint == (p.entry * p.maint_margin_rate) \div MILLI
    IN /\ p.leverage > 0
       /\ p.side = "long" => p.liq_price = p.entry - tenth + maint
       /\ p.side = "short" => p.liq_price = p.entry + tenth - maint
       /\ (p.entry = 100 * MILLI /\ p.leverage = 10 /\ p.maint_margin_rate = 4) =>
             p.liq_price = IF p.side = "long" THEN 90400 ELSE 109600

\* a long and a short, both entered at 100 with leverage 10
C27_Witness ==
  /\ positions["BTCUSDT"] # NoPos /\ positions["ETHUSDT"] # NoPos
  /\ positions["BTCUSDT"].side = "long" /\ positions["ETHUSDT"].side = "short"
  /\ positions["BTCUSDT"].entry = 100000 /\ positions["ETHUSDT"].entry = 100000
  /\ positions["BTCUSDT"].liq_price = 90400
  /\ positions["ETHUSDT"].liq_price = 109600

\* C28: in the record of every close the total fee is the opening fee plus
\* the closing fee, the opening fee is notional * rate, the closing fee is
\* exit price * quantity * rate, and net P&L is raw P&L minus the total fee;
\* a notional of 10,000 on both legs at 0.04% gives raw P&L - 8.0.
C28_FeesAndNetPnl ==
  last_closed # NoRec =>
    LET r == last_closed
    IN /\ r.fee_open_usd = (r.notional_usd * FEE_TAKER_PER10K) \div FEE_SCALE
       /\ r.fee_close_usd = (r.exit * r.qty * FEE_TAKER_PER10K) \div FEE_SCALE
       /\ r.fee_total_usd = r.fee_open_usd + r.fee_close_usd
       /\ r.net_pnl = r.pnl - r.fee_total_usd
       /\ (r.notional_usd = 10000 * MILLI /\ r.exit * r.qty = 10000 * MILLI) =>
             r.net_pnl = r.pnl - 8000

\* a position of notional 10,000 closed at a price that makes the closing
\* notional 10,000 too, and one closed with a profit or a loss
C28_Witness ==
  /\ last_closed # NoRec
  /\ last_closed.notional_usd = 10000 * MILLI
  /\ last_closed.exit * last_closed.qty = 10000 * MILLI
  /\ last_closed.fee_total_usd = 8000
  /\ last_closed.net_pnl = last_closed.pnl - 8000

\* C29: after any sequence of trades on one instrument RSI, once it has a
\* value, is within [0, 100], and it is 100 whenever the smoothed average loss
\* is exactly zero.
C29_RsiRange ==
  sstate.rsi_value # None =>
    /\ 0 <= sstate.rsi_value /\ sstate.rsi_value <= 100 * RSI_UNIT
    /\ sstate.rsi_loss = 0 => sstate.rsi_value = 100 * RSI_UNIT

\* smoothed averages of a rise and a fall: RSI strictly between 0 and 100
C29_Witness ==
  /\ sstate.rsi_value # None
  /\ sstate.rsi_den > 1
  /\ sstate.rsi_gain > 0 /\ sstate.rsi_loss > 0
  /\ 0 < sstate.rsi_value /\ sstate.rsi_value < 100 * RSI_UNIT

\* C30: vwap over a single trade of price P and quantity Q is P, and over k
\* trades that are all at price P it is P whatever their quantities.
C30_VwapOfOnePrice ==
  (/\ ev.op = "vwap"
   /\ Len(sstate.trades) >= 1
   /\ \A i \in 1..Len(sstate.trades) : sstate.trades[i].p = sstate.trades[1].p)
  => dout = sstate.trades[1].p

\* three trades at one price with unequal quantities, all within the window
C30_Witness ==
  /\ ev.op = "vwap"
  /\ Len(sstate.trades) = 3
  /\ \A i \in 1..3 : sstate.trades[i].p = 100010
  /\ sstate.trades[1].q # sstate.trades[2].q
  /\ sstate.trades[1].ts >= sstate.last_ts - din
  /\ dout = 100010

\* C31: after any sequence of top-of-book updates spread_bps has no value
\* whenever best bid or best ask is zero or missing, and is non-negative
\* whenever it has a value.
C31_SpreadUndefinedOrNonNegative ==
  ev.op = "spread" =>
    /\ (sstate.best_bid \in {None, 0} \/ sstate.best_ask \in {None, 0}) => dout = NoSpread
    /\ dout # NoSpread => dout.bps >= 0

\* C31 (evidence): the first half alone
C31_UndefinedWhenZeroOrMissing ==
  (ev.op = "spread" /\ (sstate.best_bid \in {None, 0} \/ sstate.best_ask \in {None, 0}))
     => dout = NoSpread

\* C32: snapshot is read-only: a call with any price map changes no open
\* position (pnl, last price, liquidation price, fees), nor the position map,
\* closed_count or last_closed.
C32_SnapshotReadOnly ==
  [][ev'.op = "snapshot" =>
        UNCHANGED <<positions, max_positions, closed_count, last_closed,
                    on_close_calls>>]_vars

\* a row whose price and pnl are not the ones the position is stored with
C32_Witness ==
  /\ ev.op = "snapshot"
  /\ \E row \in ev.rows :
        /\ positions[row.symbol].last_price # None
        /\ row.last_price # positions[row.symbol].last_price
        /\ row.pnl # positions[row.symbol].pnl
  /\ closed_count > 0

\* C33: when a trade event finds no open position for its symbol, the
\* decision is long or short, the cooldown interval has elapsed since the
\* symbol's last automatic open and the position count is below the maximum,
\* the event ends with an open position on the decided side and the symbol's
\* cooldown timestamp set to the event timestamp.
C33_OpenFromFlat ==
  [][ (/\ ev'.op = "trade" /\ ev'.side = "none" /\ ev'.dec \in Sides
       /\ ev'.ts - (IF signal_cooldown[ev'.sym] = None THEN 0
                    ELSE signal_cooldown[ev'.sym]) >= SIGNAL_COOLDOWN_MS
       /\ Cardinality(HeldKeys) - (IF ev'.mtm THEN 1 ELSE 0) < max_positions)
      => /\ ev'.opened
         /\ positions'[ev'.sym] # NoPos
         /\ positions'[ev'.sym].side = ev'.dec
         /\ positions'[ev'.sym].entry = last_price'[ev'.sym]
         /\ signal_cooldown'[ev'.sym] = ev'.ts ]_vars

\* a second automatic open from flat, one cooldown interval after the first,
\* next to a position of another symbol
C33_Witness ==
  /\ ev.op = "trade" /\ ev.side = "none" /\ ev.opened /\ ~ev.flip
  /\ ev.autoGap = {SIGNAL_COOLDOWN_MS}
  /\ signal_cooldown[ev.sym] = ev.ts
  /\ positions[ev.sym] # NoPos /\ positions[ev.sym].side = ev.dec
  /\ positions["ETHUSDT"] # NoPos

\* the volume-weighted average over all buffered trades at or after the cutoff
RECURSIVE C34_Sum(_, _, _)
C34_Sum(trades, cutoff, weighted) ==
  IF trades = <<>> THEN 0
  ELSE (IF trades[1].ts >= cutoff
        THEN (IF weighted THEN trades[1].p * trades[1].q ELSE trades[1].q)
        ELSE 0) + C34_Sum(Tail(trades), cutoff, weighted)

C34_Average(s, window_ms) ==
  LET den == C34_Sum(s.trades, s.last_ts - window_ms, FALSE)
  IN IF den <= 0 THEN None
     ELSE C34_Sum(s.trades, s.last_ts - window_ms, TRUE) \div den

\* C34: for every trade buffer reachable by on_trade calls, timestamps out of
\* order included, vwap(window) with its newest-to-oldest early-exit scan is
\* the volume-weighted average over all buffered trades whose timestamp is at
\* or after the cutoff.
C34_VwapIsWindowAverage ==
  ev.op = "vwap" => dout = C34_Average(sstate, din)

\* C34 (evidence): the two are equal for the buffers whose timestamps are in
\* non-decreasing order
C34_EqualWhenOrdered ==
  (/\ ev.op = "vwap"
   /\ \A i \in 1..(Len(sstate.trades) - 1) :
         sstate.trades[i].ts <= sstate.trades[i + 1].ts)
  => dout = C34_Average(sstate, din)

\* C35: the trade buffer never holds more than its capacity; when it is full
\* on_trade evicts only the oldest-inserted trade, and the trades that remain
\* keep their arrival order: the buffer is the last trades on_trade was
\* called with, in the order of the calls.
C35_BufferIsNewestInOrder ==
  LET n == Len(sstate.seen)
      k == Len(sstate.trades)
  IN /\ k <= TradeMaxLen
     /\ k = Min(n, TradeMaxLen)
     /\ \A i \in 1..k :
           /\ sstate.trades[i].ts = sstate.seen[n - k + i].ts
           /\ sstate.trades[i].p = sstate.seen[n - k + i].p
           /\ sstate.trades[i].q = sstate.seen[n - k + i].q

\* a full buffer took one more trade: the first trade is gone, the others
\* stand one place earlier, timestamps out of order among them
C35_Witness ==
  /\ Len(sstate.seen) = TradeMaxLen + 1
  /\ Len(sstate.trades) = TradeMaxLen
  /\ sstate.trades[1].ts > sstate.trades[2].ts
  /\ sstate.seen[1].p # sstate.trades[1].p

\* the signed quantity of a trade, from the m of its frame
C36_Signed(x) == IF x.m = "None" THEN 0 ELSE IF x.m = "False" THEN x.q ELSE -x.q

RECURSIVE C36_SignedSum(_, _)
C36_SignedSum(seen, cut) ==
  IF seen = <<>> THEN 0
  ELSE (IF seen[1].ts >= cut THEN C36_Signed(seen[1]) ELSE 0)
       + C36_SignedSum(Tail(seen), cut)

C37_Cvd10Defined == din # NoMetrics /\ din.cvd10 # None
C37_DecisionNeeds ==
  (dout \in {"long", "short"} /\ C37_Cvd10Defined) =>
     /\ dout = "long" => din.ef > din.es /\ din.cvd10 > 0
     /\ dout = "short" =>
          /\ din.ef < din.es
          /\ din.cvd10 < 0
          /\ din.rsi # None /\ din.rsi >= RSI_SHORT_MIN
          /\ VwapDev(din) # None
          /\ VWAP_SHORT_MIN <= VwapDev(din) /\ VwapDev(din) <= VWAP_SHORT_MAX

\* a short decision taken with the CVD below -CVD_ABS_MIN, where line 140
\* leaves short_ok alone
C37_Witness ==
  /\ dout = "short" /\ C37_Cvd10Defined
  /\ din.cvd10 < -CVD_ABS_MIN

\* a long decision taken with the CVD at CVD_ABS_MIN, where line 126 applies
C37_LongReached ==
  /\ dout = "long" /\ C37_Cvd10Defined
  /\ din.cvd10 <= CVD_ABS_MIN


\* C38: at every moment at most one _ws_loop task of the trade feed and at
\* most one of the top-of-book feed is active: next to the task run() has
\* started for a feed, no task of an earlier gather is still running for it.
C38_LoopsOf(f) ==
  (IF Alive(loop[f]) THEN 1 ELSE 0) + (IF orphan[f] THEN 1 ELSE 0)

C38_OneLoopPerFeed == \A f \in Feeds : C38_LoopsOf(f) <= 1


\* C39: in every reachable state the number of successful opens minus
\* closed_count is the number of positions in the live set, and closed_count
\* never decreases.
C39_OpensMinusClosesIsLive ==
  /\ [](open_count - closed_count = Cardinality(Held(Broker)))
  /\ [][closed_count' >= closed_count]_vars

\* positions were opened, some were closed and one is still held
C39_Witness ==
  /\ open_count >= 3 /\ closed_count >= 2
  /\ Cardinality(Held(Broker)) >= 1


\* C40: one trade event closes at most one position and opens at most one
\* position, both for the symbol of the event only; the position, the flip
\* state and the cooldown timestamp of every other symbol are what they were.
C40_TradeEventIsLocal ==
  [][ev'.op = "trade" =>
       /\ closed_count' - closed_count \in {0, 1}
       /\ open_count' - open_count \in {0, 1}
       /\ closed_count' > closed_count => last_closed'.symbol = ev'.sym
       /\ open_count' > open_count =>
            positions'[ev'.sym] # NoPos /\ positions'[ev'.sym].symbol = ev'.sym
       /\ \A k \in RawSymbols \ {ev'.sym} :
            /\ positions'[k] = positions[k]
            /\ flip_buffer'[k] = flip_buffer[k]
            /\ signal_cooldown'[k] = signal_cooldown[k] ]_vars

\* a BTCUSDT event closed the position at a trigger and opened a new one
\* while ETHUSDT had a position, a flip count and a cooldown timestamp
C40_Witness ==
  /\ ev.op = "trade" /\ ev.sym = "BTCUSDT" /\ ev.mtm /\ ev.opened
  /\ positions["ETHUSDT"] # NoPos
  /\ flip_buffer["ETHUSDT"] # NoFlip
  /\ signal_cooldown["ETHUSDT"] # None

====
